---------------------------- MODULE Spec2Model ----------------------------
(***************************************************************************)
(* A model of the FEC / multipath core of the 5G-MPQUIC-FEC repository:    *)
(* the block codec (FECEncoder / FECDecoder), the wire format of an FEC    *)
(* frame, the sender's group manager, the receive hook, the packet-number  *)
(* mapper, the path scheduler, the OCO redundancy controller and the       *)
(* master controller MPQUICFECController.                                  *)
(*                                                                         *)
(* Units.  The code computes with doubles; the model keeps the same        *)
(* quantities as integers: loss_rate in percent, rtt_ms in milliseconds,   *)
(* bandwidth_mbps in tenths of a Mbit/s, a redundancy rate as a numerator  *)
(* over RateDen, a correlation in hundredths, and time in units of         *)
(* TickMs milliseconds.  Scores are the code's scores times 100.           *)
(*                                                                         *)
(* C++ containers are 0-based, TLA+ sequences 1-based: element d of a      *)
(* vector is element d+1 of the sequence; block indices, path ids, group   *)
(* ids and packet numbers keep the code's values.                          *)
(***************************************************************************)
EXTENDS Integers, Sequences, FiniteSets, TLC

VARIABLES
    \* ---- codec harness (FECEncoder / FECDecoder used directly) ----
    enc_k,              \* FECEncoder::k_ and FECDecoder::k_
    enc_m,              \* FECEncoder::m_
    data_blocks,        \* the k source blocks handed to encode
    parity_blocks,      \* what encode returned (<<>> before the call)
    received_blocks,    \* the (block_id, block) list handed to decode
    decoded,            \* [status, blocks]: what decode returned
    \* ---- frame codec harness ----
    frame,              \* the FECFrame being serialized
    wire,               \* the bytes FECFrame::serialize produced
    parsed,             \* [status, frame]: what FECFrame::deserialize returned
    \* ---- receive side ----
    receive_hook_,      \* PacketReceiveHook: [received_groups_, decoders_]
    tx_groups,          \* group id -> [k, m, frames]: the groups a sender sealed
    rx_last,            \* the last frame delivered: [group, index, fresh]
    rx_ret,             \* what on_frame_received returned for it
    \* ---- sender side ----
    group_manager_,     \* FECGroupManager: its members as a record
    now,                \* steady_clock::now(), in ticks of TickMs
    gm_ret,             \* the last group-manager call: [op, ret, threw, had, ...]
    \* ---- MPQUICFECController ----
    path_scheduler_,    \* PathScheduler: [paths_, path_correlations_]
    oco_controller_,    \* OCORedundancyController: [link_metrics_, ...]
    pkt_mapper_,        \* PacketNumberMapper: [pkt_to_mapping_, group_to_mappings_]
    send_hook_,         \* PacketSendHook: [fec_enabled_]
    next_packet_numbers_,   \* path id -> next packet number
    fec_enabled_,
    current_decision_,  \* RedundancyDecision
    last_update_time_us_,
    stats_,             \* Statistics
    ctl_ret,            \* the last controller call and what it returned
    history,            \* what the calls so far emitted, by path and by group
    \* ---- two threads on one controller ----
    threads,            \* a send_stream_data and a get_statistics in progress
    \* ---- MPQUICManager over the transport ----
    manager             \* its members, and what the last call did

codecVars == <<enc_k, enc_m, data_blocks, parity_blocks, received_blocks, decoded>>
frameVars == <<frame, wire, parsed>>
rxVars == <<receive_hook_, tx_groups, rx_last, rx_ret>>
gmVars == <<group_manager_, now, gm_ret>>
ctlVars == <<path_scheduler_, oco_controller_, pkt_mapper_, send_hook_,
             next_packet_numbers_, fec_enabled_, current_decision_,
             last_update_time_us_, stats_, ctl_ret, history>>
vars == <<codecVars, frameVars, rxVars, gmVars, ctlVars, threads, manager>>

\* what an action of one component leaves alone: the other components
notCodec == <<frameVars, rxVars, gmVars, ctlVars, threads, manager>>
notFrame == <<codecVars, rxVars, gmVars, ctlVars, threads, manager>>
notRx == <<codecVars, frameVars, gmVars, ctlVars, threads, manager>>
notGm == <<codecVars, frameVars, rxVars, ctlVars, threads, manager>>
notCtl == <<codecVars, frameVars, rxVars, gm_ret, threads, manager>>

-----------------------------------------------------------------------------
(* Bounds of the model *)

\* largest k and m the codec harness draws
MaxK == 3
MaxM == 2
\* bytes per block in the codec harness
CodecBlockSize == 2
\* payload bytes of a frame in the frame harness
MaxPayload == 2
\* the group-manager harness stops once this many groups were created
MaxGroups == 3
\* source packets the current group may hold before the harness stops adding
MaxPending == 4
\* milliseconds per tick of the clock
TickMs == 100
\* the clock stops at this tick
MaxTime == 2
\* send_stream_data calls in one behaviour of the controller
MaxSends == 2
\* send_stream_data calls in one behaviour of a stream
MaxStream == 6
\* send_stream_data calls in one behaviour of payloads of any length
MaxSlices == 2
\* add_path calls in one behaviour of the controller
MaxAdds == 2
\* the mapper alone: group ids, packet numbers, and mappings held at once
MaxMapperGroup == 2
MaxMapperPacket == 2
MaxMappings == 3
\* the correlation harness: the largest path id, and the pairs reported
MaxCorrPath == 2
MaxCorrelated == 2
\* send_stream_data calls and get_statistics calls of two racing threads
MaxStatsSends == 2
MaxSnapshots == 2
\* the longest payload handed to MPQUICManager::send_data, and the calls of it
MaxManagerData == 5
MaxManagerSends == 2
\* update_path_state calls before select_source_path is asked
MaxSourceUpdates == 3
\* send_stream_data calls in one behaviour of a host that keeps updating
MaxStrandSends == 3
\* update_path_state calls in one behaviour of the scheduler
MaxWeightUpdates == 64
\* send_stream_data calls in one behaviour of a degrading path
MaxShiftSends == 2
\* send_stream_data calls in one behaviour of sends and added paths
MaxMapped == 4
\* deliveries of an altered frame in one behaviour of the receive hook
MaxAgain == 1

(* Program constants *)

\* FECFrameHeader::HEADER_SIZE
HEADER_SIZE == 25
\* FrameType::FEC_SOURCE_FRAME, FrameType::FEC_REPAIR_FRAME
FEC_SOURCE_FRAME == 240
FEC_REPAIR_FRAME == 241
\* periodic_update: if (elapsed_ms < 100) return
UPDATE_INTERVAL_MS == 100
\* periodic_update: if (fec_groups_created > 1000) cleanup before created - 500
CLEANUP_THRESHOLD == 1000
CLEANUP_KEEP == 500

\* get_timestamp_us() at tick t
TimestampUs(t) == t * TickMs * 1000

\* a local of the code: F applied to the value x, computed once
With(x, F(_)) == F(x)

-----------------------------------------------------------------------------
(* Byte arithmetic *)

RECURSIVE Xor8(_, _, _)
\* a ^ b on the low n bits
Xor8(a, b, n) ==
    IF n = 0 THEN 0
    ELSE (((a % 2) + (b % 2)) % 2) + 2 * Xor8(a \div 2, b \div 2, n - 1)

RECURSIVE Shr8(_, _)
\* x >> (8 * n)
Shr8(x, n) == IF n = 0 THEN x ELSE Shr8(x \div 256, n - 1)

ZeroBlock(size) == [i \in 1..size |-> 0]

-----------------------------------------------------------------------------
(* FECEncoder::encode and FECDecoder::decode *)

RECURSIVE ParityByte(_, _, _, _)
\* the inner loop over d of encode: value ^= data_blocks[d][i] * (p + d + 1),
\* value being a uint8_t; d counts down from k - 1 here, XOR being commutative
ParityByte(blocks, p, i, d) ==
    IF d < 0 THEN 0
    ELSE Xor8(ParityByte(blocks, p, i, d - 1),
              (blocks[d + 1][i] * (p + d + 1)) % 256, 8)

\* FECEncoder::encode(data_blocks) of an encoder built with (k, m, block_size):
\* [threw, blocks]
Encode(k, m, block_size, blocks) ==
    IF Len(blocks) # k
      THEN [threw |-> TRUE, blocks |-> <<>>]
    ELSE IF \E d \in 1..Len(blocks) : Len(blocks[d]) # block_size
      THEN [threw |-> TRUE, blocks |-> <<>>]
    ELSE [threw |-> FALSE,
          blocks |-> [p \in 1..m |->
                        [i \in 1..block_size |->
                            ParityByte(blocks, p - 1, i, k - 1)]]]

RECURSIVE TakeData(_, _, _)
\* the first loop of decode: the blocks whose id is below k, in list order,
\* until k of them are collected
TakeData(recv, k, acc) ==
    IF recv = <<>> \/ Len(acc) >= k THEN acc
    ELSE TakeData(Tail(recv), k,
                  IF Head(recv).id < k THEN Append(acc, Head(recv).block) ELSE acc)

RECURSIVE PadZero(_, _, _)
\* the second loop of decode: zero blocks until there are k
PadZero(acc, k, block_size) ==
    IF Len(acc) >= k THEN acc
    ELSE PadZero(Append(acc, ZeroBlock(block_size)), k, block_size)

\* FECDecoder::decode(received_blocks, block_ids) of a decoder built with
\* (k, m, block_size); recv is the list of [id, block]: [threw, blocks]
Decode(k, block_size, recv) ==
    IF Len(recv) < k
      THEN [threw |-> TRUE, blocks |-> <<>>]
      ELSE [threw |-> FALSE,
            blocks |-> PadZero(TakeData(recv, k, <<>>), k, block_size)]


-----------------------------------------------------------------------------
(* FECFrameHeader / FECFrame: serialize and deserialize *)

\* the n bytes of x, most significant first: (x >> (i * 8)) & 0xFF for
\* i = n-1 down to 0
BigEndian(x, n) == [j \in 1..n |-> Shr8(x, n - j) % 256]

RECURSIVE ReadBigEndian(_, _, _, _)
\* the loops of deserialize: value = (value << 8) | data[offset++], n times,
\* starting at the 0-based offset
ReadBigEndian(data, offset, n, value) ==
    IF n = 0 THEN value
    ELSE ReadBigEndian(data, offset + 1, n - 1, value * 256 + data[offset + 1])

\* a header writer that stores block_index least significant byte first
HeaderSerialize_LittleEndianIndex(header) ==
    <<header.frame_type>>
      \o BigEndian(header.group_id, 8)
      \o [j \in 1..4 |-> Shr8(header.block_index, j - 1) % 256]
      \o BigEndian(header.total_blocks, 4)
      \o BigEndian(header.payload_length, 4)
      \o [j \in 1..(HEADER_SIZE - 21) |-> 0]

\* FECFrameHeader::serialize: a vector of HEADER_SIZE zero bytes, of which
\* the first 21 are written
HeaderSerialize(header) ==
    <<header.frame_type>>
      \o BigEndian(header.group_id, 8)
      \o BigEndian(header.block_index, 4)
      \o BigEndian(header.total_blocks, 4)
      \o BigEndian(header.payload_length, 4)
      \o [j \in 1..(HEADER_SIZE - 21) |-> 0]

\* FECFrame::serialize: the header's bytes, then the payload
FrameSerialize(f) == HeaderSerialize(f.header) \o f.payload

\* FECFrameHeader::deserialize(data, len), for len >= HEADER_SIZE
HeaderDeserialize(data) ==
    [frame_type     |-> data[1],
     group_id       |-> ReadBigEndian(data, 1, 8, 0),
     block_index    |-> ReadBigEndian(data, 9, 4, 0),
     total_blocks   |-> ReadBigEndian(data, 13, 4, 0),
     payload_length |-> ReadBigEndian(data, 17, 4, 0)]

NoFrame ==
    [header |-> [frame_type |-> 0, group_id |-> 0, block_index |-> 0,
                 total_blocks |-> 0, payload_length |-> 0],
     payload |-> <<>>]

\* a parser that checks the header's size only and takes the payload bytes
\* that are there
FrameDeserialize_HeaderCheckOnly(data) ==
    IF Len(data) < HEADER_SIZE
      THEN [status |-> "short_header", frame |-> NoFrame]
    ELSE LET header == HeaderDeserialize(data) IN
      [status |-> "ok",
       frame |-> [header |-> header,
                  payload |-> SubSeq(data, HEADER_SIZE + 1,
                      IF Len(data) < HEADER_SIZE + header.payload_length
                        THEN Len(data)
                        ELSE HEADER_SIZE + header.payload_length)]]

\* FECFrame::deserialize(data, len) with len = Len(data): [status, frame];
\* both throws are std::invalid_argument
FrameDeserialize(data) ==
    IF Len(data) < HEADER_SIZE
      THEN [status |-> "short_header", frame |-> NoFrame]
    ELSE LET header == HeaderDeserialize(data) IN
      IF Len(data) < HEADER_SIZE + header.payload_length
        THEN [status |-> "short_payload", frame |-> NoFrame]
        ELSE [status |-> "ok",
              frame |-> [header |-> header,
                         payload |-> SubSeq(data, HEADER_SIZE + 1,
                                            HEADER_SIZE + header.payload_length)]]

-----------------------------------------------------------------------------
(* PacketReceiveHook *)

\* a default-constructed ReceivedGroup: FECGroupInfo() and no frames
NewReceivedGroup ==
    [info |-> [group_id |-> 0, k |-> 0, m |-> 0, block_size |-> 0],
     received_frames |-> <<>>,
     is_complete |-> FALSE]

\* a std::map as a function: m[key] = value
MapPut(m, key, value) ==
    [x \in DOMAIN m \cup {key} |-> IF x = key THEN value ELSE m[x]]

RECURSIVE AscendingKeys(_)
\* the keys of a std::map in iteration order
AscendingKeys(S) ==
    IF S = {} THEN <<>>
    ELSE LET lo == CHOOSE x \in S : \A y \in S : x <= y IN
         <<lo>> \o AscendingKeys(S \ {lo})

\* try_decode_group, were it to decode a group again that is_complete
TryDecodeGroup_Again(hook, group_id) ==
    LET recv_group == hook.received_groups_[group_id]
        key == <<recv_group.info.k, recv_group.info.m>>
        decoders == IF key \in DOMAIN hook.decoders_ THEN hook.decoders_
                    ELSE MapPut(hook.decoders_, key, recv_group.info.block_size)
        ids == AscendingKeys(DOMAIN recv_group.received_frames)
        recv == [n \in 1..Len(ids) |->
                    [id |-> ids[n],
                     block |-> recv_group.received_frames[ids[n]].payload]]
        r == Decode(key[1], decoders[key], recv)
    IN IF r.threw
         THEN [hook |-> [hook EXCEPT !.decoders_ = decoders], ret |-> <<>>]
         ELSE [hook |-> [hook EXCEPT !.decoders_ = decoders,
                                     !.received_groups_[group_id].is_complete = TRUE],
               ret |-> r.blocks]

\* PacketReceiveHook::try_decode_group(group_id): [hook, ret]
TryDecodeGroup(hook, group_id) ==
    LET recv_group == hook.received_groups_[group_id]
        key == <<recv_group.info.k, recv_group.info.m>>
        \* a decoder is built once per (k, m), with the block size of the
        \* group that first needed it
        decoders == IF key \in DOMAIN hook.decoders_ THEN hook.decoders_
                    ELSE MapPut(hook.decoders_, key, recv_group.info.block_size)
        ids == AscendingKeys(DOMAIN recv_group.received_frames)
        recv == [n \in 1..Len(ids) |->
                    [id |-> ids[n],
                     block |-> recv_group.received_frames[ids[n]].payload]]
        r == Decode(key[1], decoders[key], recv)
    IN IF recv_group.is_complete
         THEN [hook |-> hook, ret |-> <<>>]
       ELSE IF r.threw
         THEN [hook |-> [hook EXCEPT !.decoders_ = decoders], ret |-> <<>>]
       ELSE [hook |-> [hook EXCEPT !.decoders_ = decoders,
                                   !.received_groups_[group_id].is_complete = TRUE],
             ret |-> r.blocks]

\* on_frame_received, were it to keep the frames of every group in the one
\* ReceivedGroup of the group that arrived first
OnFrameReceived_OneGroup(hook, f) ==
    LET group_id == IF DOMAIN hook.received_groups_ = {}
                      THEN f.header.group_id
                      ELSE CHOOSE g \in DOMAIN hook.received_groups_ : TRUE
        old == IF group_id \in DOMAIN hook.received_groups_
                 THEN hook.received_groups_[group_id] ELSE NewReceivedGroup
        stored == [old EXCEPT !.received_frames =
                       MapPut(old.received_frames, f.header.block_index, f)]
        total == f.header.total_blocks
        recv_group ==
            IF stored.info.group_id = 0
              THEN [stored EXCEPT !.info =
                       [group_id |-> group_id,
                        k |-> (total * 2) \div 3,
                        m |-> total - ((total * 2) \div 3),
                        block_size |-> Len(f.payload)]]
              ELSE stored
        hook1 == [hook EXCEPT !.received_groups_ =
                     MapPut(hook.received_groups_, group_id, recv_group)]
    IN IF Cardinality(DOMAIN recv_group.received_frames) >= recv_group.info.k
         THEN TryDecodeGroup(hook1, group_id)
         ELSE [hook |-> hook1, ret |-> <<>>]

\* PacketReceiveHook::on_frame_received(frame): [hook, ret]
OnFrameReceived(hook, f) ==
    LET group_id == f.header.group_id
        old == IF group_id \in DOMAIN hook.received_groups_
                 THEN hook.received_groups_[group_id] ELSE NewReceivedGroup
        stored == [old EXCEPT !.received_frames =
                       MapPut(old.received_frames, f.header.block_index, f)]
        total == f.header.total_blocks
        \* k and m are guessed from total_blocks, assuming k : m = 2 : 1
        recv_group ==
            IF stored.info.group_id = 0
              THEN [stored EXCEPT !.info =
                       [group_id |-> group_id,
                        k |-> (total * 2) \div 3,
                        m |-> total - ((total * 2) \div 3),
                        block_size |-> Len(f.payload)]]
              ELSE stored
        hook1 == [hook EXCEPT !.received_groups_ =
                     MapPut(hook.received_groups_, group_id, recv_group)]
    IN IF Cardinality(DOMAIN recv_group.received_frames) >= recv_group.info.k
         THEN TryDecodeGroup(hook1, group_id)
         ELSE [hook |-> hook1, ret |-> <<>>]

NewReceiveHook == [received_groups_ |-> <<>>, decoders_ |-> <<>>]

-----------------------------------------------------------------------------
(* FECGroupManager.  A PendingPacket is modelled by its data: packet_number, *)
(* path_id and timestamp_us are stored by the code and never read; neither  *)
(* are FECGroupInfo::timestamp_us and EncodingGroup::created_time_us, which *)
(* are left out, as is SendPacketMeta::send_time_us.                        *)
(* Every operation returns the manager after the call together with the    *)
(* value returned and whether the call left by an exception; the manager   *)
(* returned with threw = TRUE is the state the exception leaves behind.    *)

\* create_new_group, were it to leave next_group_id_ as it is
CreateNewGroup_SameId(gm) ==
    [gm |-> gm,
     group |-> [group_id |-> gm.next_group_id_,
                info |-> [group_id |-> gm.next_group_id_,
                          k |-> gm.current_k_,
                          m |-> gm.current_m_,
                          block_size |-> gm.block_size_],
                source_packets |-> <<>>,
                repair_frames |-> <<>>,
                is_encoded |-> FALSE]]

\* FECGroupManager::create_new_group: [gm, group]
CreateNewGroup(gm) ==
    [gm |-> [gm EXCEPT !.next_group_id_ = @ + 1],
     group |-> [group_id |-> gm.next_group_id_,
                info |-> [group_id |-> gm.next_group_id_,
                          k |-> gm.current_k_,
                          m |-> gm.current_m_,
                          block_size |-> gm.block_size_],
                source_packets |-> <<>>,
                repair_frames |-> <<>>,
                is_encoded |-> FALSE]]

\* FECGroupManager::FECGroupManager(default_k, default_m, block_size)
NewGroupManager(default_k, default_m, block_size) ==
    LET gm0 == [current_k_ |-> default_k,
                current_m_ |-> default_m,
                block_size_ |-> block_size,
                encoder_ |-> [k_ |-> default_k, m_ |-> default_m],
                current_group_ |-> <<>>,
                encoded_groups_ |-> <<>>,
                next_group_id_ |-> 1]
        c == CreateNewGroup(gm0)
    IN [c.gm EXCEPT !.current_group_ = c.group]

\* FECGroupManager::perform_encoding(group): [threw, group].  encode runs
\* on the manager's encoder_; the repair frames are numbered with the
\* manager's current_k_ and current_m_
PerformEncoding(gm, group) ==
    LET data == [d \in 1..Len(group.source_packets) |-> group.source_packets[d]]
        r == Encode(gm.encoder_.k_, gm.encoder_.m_, gm.block_size_, data)
    IN IF r.threw
         THEN [threw |-> TRUE, group |-> group]
         ELSE [threw |-> FALSE,
               group |-> [group EXCEPT
                   !.repair_frames =
                       [i \in 1..Len(r.blocks) |->
                           [header |-> [frame_type |-> FEC_REPAIR_FRAME,
                                        group_id |-> group.group_id,
                                        block_index |-> gm.current_k_ + (i - 1),
                                        total_blocks |-> gm.current_k_ + gm.current_m_,
                                        payload_length |-> Len(r.blocks[i])],
                            payload |-> r.blocks[i]]],
                   !.is_encoded = TRUE]]

\* the tail shared by add_source_packet and flush_pending_groups: encode the
\* current group, store it under its id, open a new group
SealCurrent(gm) ==
    With(PerformEncoding(gm, gm.current_group_), LAMBDA e :
        IF e.threw
          THEN [threw |-> TRUE, gm |-> gm, id |-> 0]
          ELSE With(CreateNewGroup([gm EXCEPT !.encoded_groups_ =
                        MapPut(gm.encoded_groups_, e.group.group_id, e.group)]),
                    LAMBDA c :
                        [threw |-> FALSE,
                         gm |-> [c.gm EXCEPT !.current_group_ = c.group],
                         id |-> e.group.group_id]))

\* FECGroupManager::add_source_packet(packet): [gm, ret, threw]
AddSourcePacket(gm, data) ==
    LET pushed == [gm EXCEPT !.current_group_.source_packets = Append(@, data)]
    IN IF Len(pushed.current_group_.source_packets) >= pushed.current_k_
         THEN With(SealCurrent(pushed), LAMBDA sealed :
                  [gm |-> sealed.gm, ret |-> sealed.id, threw |-> sealed.threw])
         ELSE [gm |-> pushed, ret |-> 0, threw |-> FALSE]

\* FECGroupManager::get_encoded_group(group_id): the group, or <<>> for nullptr
GetEncodedGroup(gm, group_id) ==
    IF group_id \in DOMAIN gm.encoded_groups_
      THEN gm.encoded_groups_[group_id] ELSE <<>>

RECURSIVE PadPackets(_, _, _)
\* the padding loop of flush_pending_groups: zero packets up to k
PadPackets(packets, k, block_size) ==
    IF Len(packets) >= k THEN packets
    ELSE PadPackets(Append(packets, ZeroBlock(block_size)), k, block_size)

\* FECGroupManager::flush_pending_groups(): [gm, ret, threw]
FlushPendingGroups(gm) ==
    LET padded == [gm EXCEPT !.current_group_.source_packets =
                      PadPackets(gm.current_group_.source_packets,
                                 gm.current_k_, gm.block_size_)]
    IN IF gm.current_group_.source_packets = <<>>
         THEN [gm |-> gm, ret |-> <<>>, threw |-> FALSE]
         ELSE With(SealCurrent(padded), LAMBDA sealed :
                  IF sealed.threw
                    THEN [gm |-> sealed.gm, ret |-> <<>>, threw |-> TRUE]
                    ELSE [gm |-> sealed.gm, ret |-> <<sealed.id>>,
                          threw |-> FALSE])

\* FECGroupManager::update_coding_params(k, m): [gm, threw].  The FECEncoder
\* constructor throws for k = 0 or m = 0, after current_k_ and current_m_
\* were assigned
UpdateCodingParams(gm, k, m) ==
    LET assigned == [gm EXCEPT !.current_k_ = k, !.current_m_ = m]
        rebuilt == [assigned EXCEPT !.encoder_ = [k_ |-> k, m_ |-> m]]
    IN IF k = gm.current_k_ /\ m = gm.current_m_
         THEN [gm |-> gm, threw |-> FALSE]
       ELSE IF k = 0 \/ m = 0
         THEN [gm |-> assigned, threw |-> TRUE]
       ELSE With(FlushPendingGroups(rebuilt), LAMBDA flushed :
                [gm |-> flushed.gm, threw |-> flushed.threw])

\* FECGroupManager::cleanup_old_groups(before_group_id)
CleanupOldGroups(gm, before_group_id) ==
    [gm EXCEPT !.encoded_groups_ =
        [id \in {x \in DOMAIN gm.encoded_groups_ : x >= before_group_id} |->
            gm.encoded_groups_[id]]]

-----------------------------------------------------------------------------
(* PathScheduler.  A PathState is [path_id, rtt_ms, loss_rate,             *)
(* bandwidth_mbps]; bytes_sent, bytes_acked, jitter_ms and cwnd are stored *)
(* and never read by the operations below.  weights_ holds the weights     *)
(* times WeightOne; the exponential of update_weights is computed in fixed *)
(* point from its series, to within a few units of 1 / WeightOne.          *)

\* below every score a path of the model can have, as -1e9 is in the code
LowestScore == -2000000000
\* above every |correlation|, as 2.0 is in the code
HighestCorrelation == 200

Abs(x) == IF x < 0 THEN -x ELSE x
Min(a, b) == IF a < b THEN a ELSE b
Max(a, b) == IF a > b THEN a ELSE b

NewPathScheduler ==
    [paths_ |-> <<>>, path_correlations_ |-> <<>>, weights_ |-> <<>>]

\* a weight, a gradient or an exponential of 1.0
WeightOne == 1000000
\* std::max(0.001, weight), times WeightOne
WeightFloor == 1000

\* PathScheduler::compute_cost(state), times 1000:
\* max(0.001, 0.5 * rtt_ms / 100 + 0.3 * loss_rate + 0.2 * 100 / max(1, bw))
SchedComputeCost(state) ==
    Max(1, 5 * state.rtt_ms + 3 * state.loss_rate
             + 200000 \div Max(10, state.bandwidth_mbps))

RECURSIVE SumOver(_, _)
\* the sum of f over the keys in the sequence
SumOver(keys, f) ==
    IF keys = <<>> THEN 0 ELSE f[Head(keys)] + SumOver(Tail(keys), f)

RECURSIVE LongDiv(_, _, _)
\* [q, r] with a * b = q * c + r and r < c, two decimal digits of a at a
\* time, so that no intermediate value leaves 32 bits
LongDiv(a, b, c) ==
    IF a = 0 THEN [q |-> 0, r |-> 0]
    ELSE With(LongDiv(a \div 100, b, c), LAMBDA hi :
           [q |-> hi.q * 100 + (hi.r * 100 + (a % 100) * b) \div c,
            r |-> (hi.r * 100 + (a % 100) * b) % c])

\* a * b / c, rounded to the nearest unit
MulDiv(a, b, c) ==
    With(LongDiv(a, b, c), LAMBDA d : IF 2 * d.r >= c THEN d.q + 1 ELSE d.q)

\* std::exp(-x) times WeightOne, x being given times WeightOne and at most
\* 0.1: 1 - x + x^2/2 - x^3/6 + x^4/24
ExpNeg(x) ==
    With(MulDiv(x, x, WeightOne), LAMBDA x2 :
      With(MulDiv(x2, x, WeightOne), LAMBDA x3 :
        WeightOne - x + MulDiv(x2, 1, 2) - MulDiv(x3, 1, 6)
            + MulDiv(MulDiv(x3, x, WeightOne), 1, 24)))

\* w / sum times WeightOne
Normalized(w, sum) == MulDiv(w, WeightOne, sum)

\* the gradient step of update_weights for one path: the gradient is
\* cost / max(0.001, total_cost), alpha_ is 0.1
Descended(weight, cost, total_cost) ==
    Max(WeightFloor,
        MulDiv(weight,
               ExpNeg(MulDiv(cost, WeightOne, Max(1, total_cost)) \div 10),
               WeightOne))

\* the normalisation of update_weights: every weight over their sum
NormalizedAll(weights) ==
    [p \in DOMAIN weights |->
        Normalized(weights[p],
                   SumOver(AscendingKeys(DOMAIN weights), weights))]

\* PathScheduler::update_weights()
SchedUpdateWeights(s) ==
    IF DOMAIN s.paths_ = {} THEN s
    ELSE [s EXCEPT !.weights_ = NormalizedAll(
            [p \in DOMAIN s.weights_ |->
                IF p \in DOMAIN s.paths_
                  THEN Descended(s.weights_[p], SchedComputeCost(s.paths_[p]),
                           SumOver(AscendingKeys(DOMAIN s.paths_),
                               [q \in DOMAIN s.paths_ |->
                                   SchedComputeCost(s.paths_[q])]))
                  ELSE s.weights_[p]])]

\* the first half of update_path_state: the state is stored and a new path
\* gets the weight 1 / paths_.size()
SchedStorePathState(s, state) ==
    [s EXCEPT !.paths_ = MapPut(s.paths_, state.path_id, state),
              !.weights_ =
                  IF state.path_id \in DOMAIN s.weights_ THEN @
                  ELSE MapPut(@, state.path_id,
                           WeightOne \div Max(1,
                               Cardinality(DOMAIN s.paths_ \cup {state.path_id})))]

\* PathScheduler::update_path_state(state)
SchedUpdatePathState(s, state) ==
    SchedUpdateWeights(SchedStorePathState(s, state))

RECURSIVE BestScoreLoop(_, _, _, _)
\* for (path_id : map) if (score > best_score) { best_score = score;
\* best_path = path_id; }  over the keys still to visit, in key order
BestScoreLoop(keys, score, best_path, best_score) ==
    IF keys = <<>> THEN best_path
    ELSE IF score[Head(keys)] > best_score
      THEN BestScoreLoop(Tail(keys), score, Head(keys), score[Head(keys)])
      ELSE BestScoreLoop(Tail(keys), score, best_path, best_score)

\* -0.4 * rtt_ms - 0.5 * loss_rate * 1000 + 0.1 * bandwidth_mbps, times 100
SchedScore(state) ==
    -40 * state.rtt_ms - 500 * state.loss_rate + state.bandwidth_mbps

\* PathScheduler::select_source_path(packet_size): [threw, path]
SchedSelectSourcePath(s) ==
    IF DOMAIN s.paths_ = {} THEN [threw |-> TRUE, path |-> 0]
    ELSE LET keys == AscendingKeys(DOMAIN s.paths_) IN
         [threw |-> FALSE,
          path |-> BestScoreLoop(keys,
                       [p \in DOMAIN s.paths_ |-> SchedScore(s.paths_[p])],
                       Head(keys), LowestScore)]

\* a key that keeps the order of its arguments
PairKey_AsGiven(i, j) == <<i, j>>

\* std::make_pair(std::min(i, j), std::max(i, j))
PairKey(i, j) == <<Min(i, j), Max(i, j)>>

\* PathScheduler::get_path_correlation(path_i, path_j)
SchedGetPathCorrelation(s, path_i, path_j) ==
    IF path_i = path_j THEN 100
    ELSE IF PairKey(path_i, path_j) \in DOMAIN s.path_correlations_
      THEN s.path_correlations_[PairKey(path_i, path_j)]
    ELSE 0

RECURSIVE LeastCorrelatedLoop_LastWins(_, _, _, _, _)
\* the loop with corr <= min_correlation: of equal candidates the last wins
LeastCorrelatedLoop_LastWins(cs, corr, path_id, best, lowest) ==
    IF cs = <<>> THEN best
    ELSE IF Head(cs) # path_id /\ corr[Head(cs)] <= lowest
      THEN LeastCorrelatedLoop_LastWins(Tail(cs), corr, path_id,
                                        Head(cs), corr[Head(cs)])
      ELSE LeastCorrelatedLoop_LastWins(Tail(cs), corr, path_id, best, lowest)

RECURSIVE LeastCorrelatedLoop(_, _, _, _, _)
\* for (candidate : ...) { if (candidate == path_id) continue;
\* if (corr < min_correlation) { min_correlation = corr; best_path = candidate; } }
LeastCorrelatedLoop(candidates, corr, path_id, best_path, min_correlation) ==
    IF candidates = <<>> THEN best_path
    ELSE IF Head(candidates) # path_id /\ corr[Head(candidates)] < min_correlation
      THEN LeastCorrelatedLoop(Tail(candidates), corr, path_id,
                               Head(candidates), corr[Head(candidates)])
      ELSE LeastCorrelatedLoop(Tail(candidates), corr, path_id,
                               best_path, min_correlation)

\* PathScheduler::find_least_correlated_path(path_id)
SchedFindLeastCorrelatedPath(s, path_id) ==
    IF Cardinality(DOMAIN s.paths_) <= 1 THEN path_id
    ELSE LeastCorrelatedLoop(
             AscendingKeys(DOMAIN s.paths_),
             [c \in DOMAIN s.paths_ |-> Abs(SchedGetPathCorrelation(s, path_id, c))],
             path_id, path_id, HighestCorrelation)

\* PathScheduler::select_repair_path(source_path_id, packet_size): [threw, path]
SchedSelectRepairPath(s, source_path_id) ==
    LET keys == AscendingKeys(DOMAIN s.paths_)
        repair_path == SchedFindLeastCorrelatedPath(s, source_path_id)
        others == SelectSeq(keys, LAMBDA p : p # source_path_id)
    IN IF keys = <<>> THEN [threw |-> TRUE, path |-> 0]
       ELSE IF Len(keys) = 1 THEN [threw |-> FALSE, path |-> Head(keys)]
       ELSE IF repair_path = source_path_id
         THEN [threw |-> FALSE, path |-> Head(others)]
       ELSE [threw |-> FALSE, path |-> repair_path]

\* PathScheduler::update_path_correlation(path_i, path_j, correlation): the
\* value is stored as it is given; the attached OCO controller is updated
\* by the caller of this operator
SchedUpdatePathCorrelation(s, path_i, path_j, correlation) ==
    [s EXCEPT !.path_correlations_ =
        MapPut(s.path_correlations_, PairKey(path_i, path_j), correlation)]

\* PathScheduler::is_path_available(path_id): loss_rate < 0.5 and
\* bandwidth_mbps > 0.1
IsPathAvailable(s, path_id) ==
    /\ path_id \in DOMAIN s.paths_
    /\ s.paths_[path_id].loss_rate < 50
    /\ s.paths_[path_id].bandwidth_mbps > 1

-----------------------------------------------------------------------------
(* OCORedundancyController and LossCorrelationMatrix.  A LinkMetrics is    *)
(* [path_id, rtt_ms, loss_rate, bandwidth_mbps].                           *)

\* the denominator of a redundancy rate: 1.0 is RateDen
RateDen == 100000

\* RedundancyDecision(): the default member initialisers
DefaultDecision ==
    [k |-> 4, m |-> 2, redundancy_rate |-> RateDen \div 2,
     source_path |-> 0, repair_path |-> 1, confidence |-> 100]

\* OCORedundancyController::OCORedundancyController()
NewOcoController ==
    [link_metrics_ |-> <<>>, correlation_matrix_ |-> <<>>,
     min_redundancy_rate_ |-> RateDen \div 10, max_redundancy_rate_ |-> RateDen]

\* OCORedundancyController::set_redundancy_constraints(min_rate, max_rate)
SetRedundancyConstraints(oco, min_rate, max_rate) ==
    [oco EXCEPT !.min_redundancy_rate_ = Max(0, min_rate),
                !.max_redundancy_rate_ = Min(RateDen, max_rate)]

Strategies == {"AGGRESSIVE", "BALANCED", "CONSERVATIVE", "DYNAMIC"}

\* AdaptiveFECStrategy::get_strategy_redundancy_range(strategy): (min, max)
GetStrategyRedundancyRange(strategy) ==
    CASE strategy = "AGGRESSIVE" -> <<(4 * RateDen) \div 10, RateDen>>
      [] strategy = "CONSERVATIVE" -> <<RateDen \div 10, (3 * RateDen) \div 10>>
      [] strategy = "BALANCED" -> <<(2 * RateDen) \div 10, (6 * RateDen) \div 10>>
      [] OTHER -> <<RateDen \div 10, RateDen>>

\* OCORedundancyController::update_link_metrics(metrics)
OcoUpdateLinkMetrics(oco, metrics) ==
    [oco EXCEPT !.link_metrics_ = MapPut(oco.link_metrics_, metrics.path_id, metrics)]

\* LossCorrelationMatrix::update_correlation(path_i, path_j, rho)
LcmUpdateCorrelation(matrix, path_i, path_j, rho) ==
    MapPut(matrix, PairKey(path_i, path_j), Max(-100, Min(100, rho)))

\* OCORedundancyController::update_loss_correlation(path_i, path_j, rho)
OcoUpdateLossCorrelation(oco, path_i, path_j, rho) ==
    [oco EXCEPT !.correlation_matrix_ =
        LcmUpdateCorrelation(oco.correlation_matrix_, path_i, path_j, rho)]

\* LossCorrelationMatrix::get_correlation(path_i, path_j)
LcmGetCorrelation(matrix, path_i, path_j) ==
    IF path_i = path_j THEN 100
    ELSE IF PairKey(path_i, path_j) \in DOMAIN matrix
      THEN matrix[PairKey(path_i, path_j)]
    ELSE 0

\* LossCorrelationMatrix::find_least_correlated_path(path_id, available_paths)
LcmFindLeastCorrelatedPath(matrix, path_id, available_paths) ==
    IF available_paths = <<>> THEN path_id
    ELSE LeastCorrelatedLoop(
             available_paths,
             [c \in {available_paths[i] : i \in 1..Len(available_paths)} |->
                 Abs(LcmGetCorrelation(matrix, path_id, c))],
             path_id, available_paths[1], HighestCorrelation)

\* -0.3 * rtt_ms - 0.5 * loss_rate * 1000 + 0.2 * bandwidth_mbps, times 100
OcoScore(metrics) ==
    -30 * metrics.rtt_ms - 500 * metrics.loss_rate + 2 * metrics.bandwidth_mbps

\* OCORedundancyController::select_source_path()
OcoSelectSourcePath(oco) ==
    IF DOMAIN oco.link_metrics_ = {} THEN 0
    ELSE LET keys == AscendingKeys(DOMAIN oco.link_metrics_) IN
         BestScoreLoop(keys,
             [p \in DOMAIN oco.link_metrics_ |-> OcoScore(oco.link_metrics_[p])],
             Head(keys), LowestScore)

\* OCORedundancyController::select_repair_path(source_path)
OcoSelectRepairPath(oco, source_path) ==
    LET available_paths == SelectSeq(AscendingKeys(DOMAIN oco.link_metrics_),
                                     LAMBDA p : p # source_path)
    IN IF available_paths = <<>> THEN source_path
       ELSE LcmFindLeastCorrelatedPath(oco.correlation_matrix_, source_path,
                                       available_paths)

\* an estimate that takes the loss rate once, not twice
EstimateRequiredRedundancy_LossOnce(oco, metrics) ==
    Max(oco.min_redundancy_rate_,
        Min(oco.max_redundancy_rate_,
            metrics.loss_rate * (1000 + (3 * metrics.rtt_ms) \div 2)))

\* OCORedundancyController::estimate_required_redundancy(metrics):
\* loss_rate * 2.0 * (1.0 + (rtt_ms / 200.0) * 0.3), clamped to [min, max]
EstimateRequiredRedundancy(oco, metrics) ==
    Max(oco.min_redundancy_rate_,
        Min(oco.max_redundancy_rate_,
            metrics.loss_rate * (2000 + 3 * metrics.rtt_ms)))

\* ceil(a / b) for a >= 0, b > 0
CeilDiv(a, b) == (a + b - 1) \div b

\* OCORedundancyController::redundancy_rate_to_params(rate): (k, m)
RedundancyRateToParams(rate) ==
    LET k == IF rate < RateDen \div 5 THEN 10
             ELSE IF rate > (3 * RateDen) \div 5 THEN 4
             ELSE 8
        m == CeilDiv(k * rate, RateDen)
    IN [k |-> k, m |-> Max(1, Min(m, k))]

\* OCORedundancyController::compute_optimal_redundancy()
ComputeOptimalRedundancy(oco) ==
    IF DOMAIN oco.link_metrics_ = {} THEN DefaultDecision
    ELSE LET source_path == OcoSelectSourcePath(oco)
             repair_path == OcoSelectRepairPath(oco, source_path)
             source_metrics == oco.link_metrics_[source_path]
             redundancy_rate ==
                 Max(oco.min_redundancy_rate_,
                     Min(oco.max_redundancy_rate_,
                         EstimateRequiredRedundancy(oco, source_metrics)))
             km == RedundancyRateToParams(redundancy_rate)
         IN [k |-> km.k, m |-> km.m, redundancy_rate |-> redundancy_rate,
             source_path |-> source_path, repair_path |-> repair_path,
             confidence |-> 100 - source_metrics.loss_rate]

-----------------------------------------------------------------------------
(* PacketNumberMapper *)

NewPacketNumberMapper == [pkt_to_mapping_ |-> <<>>, group_to_mappings_ |-> <<>>]

\* PacketNumberMapper::add_mapping(group_id, block_idx, path_id, pkt_num, is_repair)
AddMapping(mapper, group_id, block_idx, path_id, pkt_num, is_repair) ==
    LET mapping == [group_id |-> group_id, block_index |-> block_idx,
                    path_id |-> path_id, packet_number |-> pkt_num,
                    is_repair |-> is_repair]
        old == IF group_id \in DOMAIN mapper.group_to_mappings_
                 THEN mapper.group_to_mappings_[group_id] ELSE <<>>
    IN [pkt_to_mapping_ |->
            MapPut(mapper.pkt_to_mapping_, <<path_id, pkt_num>>, mapping),
        group_to_mappings_ |->
            MapPut(mapper.group_to_mappings_, group_id, Append(old, mapping))]

\* PacketNumberMapper::find_by_packet(path_id, packet_number): the mapping
\* pointed to, in a list of one, or nothing for nullptr
FindByPacket(mapper, path_id, packet_number) ==
    IF <<path_id, packet_number>> \in DOMAIN mapper.pkt_to_mapping_
      THEN <<mapper.pkt_to_mapping_[<<path_id, packet_number>>]>>
      ELSE <<>>

\* PacketNumberMapper::find_by_group(group_id)
FindByGroup(mapper, group_id) ==
    IF group_id \in DOMAIN mapper.group_to_mappings_
      THEN mapper.group_to_mappings_[group_id]
      ELSE <<>>

\* PacketNumberMapper::cleanup_old_mappings(before_group_id)
CleanupOldMappings(mapper, before_group_id) ==
    LET removed == {g \in DOMAIN mapper.group_to_mappings_ : g < before_group_id}
        keys == UNION {{<<mapper.group_to_mappings_[g][i].path_id,
                          mapper.group_to_mappings_[g][i].packet_number>> :
                            i \in 1..Len(mapper.group_to_mappings_[g])} :
                       g \in removed}
    IN [pkt_to_mapping_ |->
            [key \in DOMAIN mapper.pkt_to_mapping_ \ keys |->
                mapper.pkt_to_mapping_[key]],
        group_to_mappings_ |->
            [g \in DOMAIN mapper.group_to_mappings_ \ removed |->
                mapper.group_to_mappings_[g]]]

\* the live mappings: those of every group the mapper holds, in one list
RECURSIVE LiveMappings(_, _)
LiveMappings(mapper, groups) ==
    IF groups = <<>> THEN <<>>
    ELSE mapper.group_to_mappings_[Head(groups)]
           \o LiveMappings(mapper, Tail(groups))

-----------------------------------------------------------------------------
(* PacketSendHook *)

\* PacketSendHook::wrap_source_frame(group_id, block_idx, total_blocks, data)
WrapSourceFrame(group_id, block_idx, total_blocks, data) ==
    [header |-> [frame_type |-> FEC_SOURCE_FRAME,
                 group_id |-> group_id,
                 block_index |-> block_idx,
                 total_blocks |-> total_blocks,
                 payload_length |-> Len(data)],
     payload |-> data]

\* the same loop, were it to number the blocks from the last one down
SourceFrames_Descending(group) ==
    [i \in 1..Len(group.source_packets) |->
        WrapSourceFrame(group.group_id, Len(group.source_packets) - i,
                        group.info.k + group.info.m, group.source_packets[i])]

\* the loop of on_packet_send over group->source_packets
SourceFrames(group) ==
    [i \in 1..Len(group.source_packets) |->
        WrapSourceFrame(group.group_id, i - 1,
                        group.info.k + group.info.m, group.source_packets[i])]

\* PacketSendHook::on_packet_send(packet_num, path_id, stream_data, out_packets):
\* [gm, ret, out_packets, threw]
OnPacketSend(hook, gm, stream_data) ==
    IF ~hook.fec_enabled_
      THEN [gm |-> gm, ret |-> FALSE, out_packets |-> <<>>, threw |-> FALSE]
      ELSE With(AddSourcePacket(gm, stream_data), LAMBDA a :
        LET group == GetEncodedGroup(a.gm, a.ret)
        IN IF a.threw
             THEN [gm |-> a.gm, ret |-> FALSE, out_packets |-> <<>>,
                   threw |-> TRUE]
           ELSE IF /\ a.ret > 0
                   /\ a.ret \in DOMAIN a.gm.encoded_groups_
                   /\ group.is_encoded
             THEN [gm |-> a.gm, ret |-> TRUE,
                   out_packets |-> SourceFrames(group) \o group.repair_frames,
                   threw |-> FALSE]
           ELSE [gm |-> a.gm, ret |-> FALSE, out_packets |-> <<>>,
                 threw |-> FALSE])

-----------------------------------------------------------------------------
(* MPQUICFECController.  Its members are the record c; every operation    *)
(* returns the members after the call, and with threw = TRUE the members  *)
(* as the exception leaves them.                                          *)

NewStatistics ==
    [total_packets_sent |-> 0, source_packets_sent |-> 0,
     repair_packets_sent |-> 0, packets_recovered |-> 0,
     fec_groups_created |-> 0, current_redundancy_rate |-> 0]

\* MPQUICFECController::MPQUICFECController(default_k, default_m, block_size)
NewController(default_k, default_m, block_size) ==
    [group_manager_ |-> NewGroupManager(default_k, default_m, block_size),
     send_hook_ |-> [fec_enabled_ |-> TRUE],
     path_scheduler_ |-> NewPathScheduler,
     oco_controller_ |-> NewOcoController,
     pkt_mapper_ |-> NewPacketNumberMapper,
     next_packet_numbers_ |-> <<>>,
     fec_enabled_ |-> TRUE,
     current_decision_ |-> DefaultDecision,
     last_update_time_us_ |-> 0,
     stats_ |-> NewStatistics]

\* MPQUICFECController::initialize()
Initialize(c, time) ==
    [c EXCEPT !.current_decision_.k = 4,
              !.current_decision_.m = 2,
              !.current_decision_.redundancy_rate = RateDen \div 2,
              !.last_update_time_us_ = time]

\* MPQUICFECController::add_path(path_id, state)
AddPath(c, path_id, state) ==
    [c EXCEPT !.path_scheduler_ = SchedUpdatePathState(c.path_scheduler_, state),
              !.next_packet_numbers_ = MapPut(c.next_packet_numbers_, path_id, 1),
              !.oco_controller_ =
                  OcoUpdateLinkMetrics(c.oco_controller_,
                      [path_id |-> path_id, rtt_ms |-> state.rtt_ms,
                       loss_rate |-> state.loss_rate,
                       bandwidth_mbps |-> state.bandwidth_mbps])]

\* MPQUICFECController::update_path_state(state)
UpdatePathState(c, state) ==
    [c EXCEPT !.path_scheduler_ = SchedUpdatePathState(c.path_scheduler_, state),
              !.oco_controller_ =
                  OcoUpdateLinkMetrics(c.oco_controller_,
                      [path_id |-> state.path_id, rtt_ms |-> state.rtt_ms,
                       loss_rate |-> state.loss_rate,
                       bandwidth_mbps |-> state.bandwidth_mbps])]

\* MPQUICFECController::update_loss_correlation(path_i, path_j, rho): the
\* scheduler stores rho and hands it to the OCO controller attached to it,
\* then the OCO controller is handed rho once more
UpdateLossCorrelation(c, path_i, path_j, rho) ==
    [c EXCEPT !.path_scheduler_ =
                  SchedUpdatePathCorrelation(c.path_scheduler_, path_i, path_j, rho),
              !.oco_controller_ =
                  OcoUpdateLossCorrelation(
                      OcoUpdateLossCorrelation(c.oco_controller_, path_i, path_j, rho),
                      path_i, path_j, rho)]

\* MPQUICFECController::set_fec_enabled(enabled)
SetFecEnabled(c, enabled) ==
    [c EXCEPT !.fec_enabled_ = enabled, !.send_hook_.fec_enabled_ = enabled]

\* MPQUICFECController::set_fec_strategy(strategy)
SetFecStrategy(c, strategy) ==
    [c EXCEPT !.oco_controller_ =
        SetRedundancyConstraints(@, GetStrategyRedundancyRange(strategy)[1],
                                 GetStrategyRedundancyRange(strategy)[2])]

\* MPQUICFECController::get_next_packet_number(path_id):
\* next_packet_numbers_[path_id]++ on a std::map, a missing key starting at 0
GetNextPacketNumber(next_packet_numbers, path_id) ==
    LET value == IF path_id \in DOMAIN next_packet_numbers
                   THEN next_packet_numbers[path_id] ELSE 0
    IN [value |-> value, map |-> MapPut(next_packet_numbers, path_id, value + 1)]

RECURSIVE AssignLoop(_, _, _, _)
\* the loop of assign_packets_to_paths over frames; acc is
\* [next_packet_numbers_, stats_, pkt_mapper_, out_packets]
AssignLoop(frames, source_path, repair_path, acc) ==
    IF frames = <<>> THEN acc
    ELSE LET f == Head(frames)
             is_source == f.header.frame_type = FEC_SOURCE_FRAME
             path == IF is_source THEN source_path ELSE repair_path
             n == GetNextPacketNumber(acc.next_packet_numbers_, path)
             meta == [packet_number |-> n.value, path_id |-> path,
                      frame |-> f,
                      is_repair |-> ~is_source]
         IN AssignLoop(Tail(frames), source_path, repair_path,
              [next_packet_numbers_ |-> n.map,
               stats_ |-> [acc.stats_ EXCEPT
                   !.source_packets_sent = @ + (IF is_source THEN 1 ELSE 0),
                   !.repair_packets_sent = @ + (IF is_source THEN 0 ELSE 1),
                   !.total_packets_sent = @ + 1],
               pkt_mapper_ |-> AddMapping(acc.pkt_mapper_, f.header.group_id,
                                          f.header.block_index, path, n.value,
                                          ~is_source),
               out_packets |-> Append(acc.out_packets, meta)])

\* MPQUICFECController::assign_packets_to_paths(frames, out_packets): [threw, acc]
AssignPacketsToPaths(c, frames) ==
    LET acc == [next_packet_numbers_ |-> c.next_packet_numbers_,
                stats_ |-> c.stats_,
                pkt_mapper_ |-> c.pkt_mapper_,
                out_packets |-> <<>>]
    IN With(SchedSelectSourcePath(c.path_scheduler_), LAMBDA source :
       With(SchedSelectRepairPath(c.path_scheduler_, source.path), LAMBDA repair :
           IF source.threw \/ repair.threw
             THEN [threw |-> TRUE, acc |-> acc]
             ELSE [threw |-> FALSE,
                   acc |-> AssignLoop(frames, source.path, repair.path, acc)]))

\* a send that marks the packet it returns without FEC as a repair packet
SendStreamData_BypassAsRepair(c, stream_data, original_path_id, uninit) ==
    [c |-> c,
     result |-> IF c.fec_enabled_ THEN <<>>
                ELSE <<[packet_number |-> 0, path_id |-> original_path_id,
                        frame |-> [header |-> uninit, payload |-> stream_data],
                        is_repair |-> TRUE]>>,
     threw |-> FALSE, sealed |-> FALSE]

\* MPQUICFECController::send_stream_data(stream_data, original_path_id):
\* [c, result, threw, sealed].  uninit is what the members of meta.frame.header
\* that the FEC-disabled branch never assigns happen to hold.  fake_pkt_num
\* goes into PendingPacket::packet_number only.
SendStreamData(c, stream_data, original_path_id, uninit) ==
    LET n == GetNextPacketNumber(c.next_packet_numbers_, original_path_id)
        c1 == [c EXCEPT !.next_packet_numbers_ = n.map]
        meta == [packet_number |-> n.value, path_id |-> original_path_id,
                 frame |-> [header |-> [uninit EXCEPT !.frame_type = FEC_SOURCE_FRAME],
                            payload |-> stream_data],
                 is_repair |-> FALSE]
    IN IF ~c.fec_enabled_
         THEN [c |-> c1, result |-> <<meta>>, threw |-> FALSE, sealed |-> FALSE]
         ELSE With(OnPacketSend(c.send_hook_, c.group_manager_, stream_data),
                   LAMBDA h :
           LET c2 == [c1 EXCEPT !.group_manager_ = h.gm]
           IN IF h.threw
                THEN [c |-> c2, result |-> <<>>, threw |-> TRUE, sealed |-> FALSE]
              ELSE IF h.ret /\ h.out_packets # <<>>
                THEN With(AssignPacketsToPaths(c2, h.out_packets), LAMBDA a :
                  IF a.threw
                    THEN [c |-> c2, result |-> <<>>, threw |-> TRUE,
                          sealed |-> TRUE]
                    ELSE [c |-> [c2 EXCEPT
                                  !.next_packet_numbers_ = a.acc.next_packet_numbers_,
                                  !.pkt_mapper_ = a.acc.pkt_mapper_,
                                  !.stats_ = [a.acc.stats_ EXCEPT
                                                 !.fec_groups_created = @ + 1]],
                          result |-> a.acc.out_packets, threw |-> FALSE,
                          sealed |-> TRUE])
              ELSE [c |-> c2, result |-> <<>>, threw |-> FALSE, sealed |-> FALSE])

\* MPQUICFECController::update_fec_parameters(): [c, threw]
UpdateFecParameters(c) ==
    With(ComputeOptimalRedundancy(c.oco_controller_), LAMBDA decision :
      LET c1 == [c EXCEPT !.current_decision_ = decision]
      IN IF c.group_manager_.current_k_ # decision.k
            \/ c.group_manager_.current_m_ # decision.m
           THEN With(UpdateCodingParams(c.group_manager_, decision.k, decision.m),
                     LAMBDA u :
                  IF u.threw
                    THEN [c |-> [c1 EXCEPT !.group_manager_ = u.gm],
                          threw |-> TRUE]
                    ELSE [c |-> [c1 EXCEPT
                                    !.group_manager_ = u.gm,
                                    !.stats_.current_redundancy_rate =
                                        decision.redundancy_rate],
                          threw |-> FALSE])
           ELSE [c |-> c1, threw |-> FALSE])

\* periodic_update without its gate: every call updates and flushes
PeriodicUpdate_Ungated(c, time) ==
    With(UpdateFecParameters(c), LAMBDA u :
      IF u.threw
        THEN [c |-> u.c, threw |-> TRUE, ran |-> TRUE]
        ELSE With(FlushPendingGroups(u.c.group_manager_), LAMBDA flushed :
          [c |-> [u.c EXCEPT !.group_manager_ = flushed.gm,
                             !.last_update_time_us_ =
                                 IF flushed.threw THEN @ ELSE time],
           threw |-> flushed.threw, ran |-> TRUE]))

\* MPQUICFECController::periodic_update(): [c, threw, ran]
PeriodicUpdate(c, time) ==
    LET elapsed_ms == (time - c.last_update_time_us_) \div 1000
        Cleaned(c2) ==
            LET cleanup_before == c2.stats_.fec_groups_created - CLEANUP_KEEP
            IN IF c2.stats_.fec_groups_created > CLEANUP_THRESHOLD
                 THEN [c2 EXCEPT
                         !.pkt_mapper_ =
                             CleanupOldMappings(c2.pkt_mapper_, cleanup_before),
                         !.group_manager_ =
                             CleanupOldGroups(c2.group_manager_, cleanup_before)]
                 ELSE c2
    IN IF elapsed_ms < UPDATE_INTERVAL_MS
         THEN [c |-> c, threw |-> FALSE, ran |-> FALSE]
         ELSE With(UpdateFecParameters(c), LAMBDA u :
           IF u.threw
             THEN [c |-> u.c, threw |-> TRUE, ran |-> TRUE]
             ELSE With(FlushPendingGroups(u.c.group_manager_), LAMBDA flushed :
               IF flushed.threw
                 THEN [c |-> [u.c EXCEPT !.group_manager_ = flushed.gm],
                       threw |-> TRUE, ran |-> TRUE]
                 ELSE [c |-> [Cleaned([u.c EXCEPT !.group_manager_ = flushed.gm])
                                EXCEPT !.last_update_time_us_ = time],
                       threw |-> FALSE, ran |-> TRUE]))

\* no call is in progress on any thread: frames are the frames
\* assign_packets_to_paths has still to count (TRUE for a repair frame),
\* counted says the source or repair counter was incremented for the first
\* of them, copied are the members get_statistics has copied so far into
\* snapshot, returned is the last snapshot returned, whole are the values
\* stats_ had between controller operations, reads counts the snapshots
NoThreads ==
    [frames |-> <<>>, counted |-> FALSE, copied |-> {},
     snapshot |-> NewStatistics, returned |-> NewStatistics,
     whole |-> {NewStatistics}, reads |-> 0]

ThreadsIdle == threads = NoThreads

-----------------------------------------------------------------------------
(* MPQUICManager: send_data over a connected transport.  The scheduler of  *)
(* the manager holds the path the connection opened, so a path is always   *)
(* selected; what the transport does with a block is an input: dropped     *)
(* holds the positions, among the k data blocks and m parity blocks of a   *)
(* call, of the send_on_path calls that return 0.                          *)

\* no call was made
NoManagerCall ==
    [op |-> "none", data |-> <<>>, use_fec |-> FALSE, fec |-> FALSE,
     ret |-> FALSE, handed |-> <<>>]

\* MPQUICManager::MPQUICManager(use_real_quic)
NewManager ==
    [fec_enabled_ |-> TRUE, fec_k_ |-> 4, fec_m_ |-> 2,
     fec_block_size_ |-> 1024, total_bytes_sent_ |-> 0,
     fec_blocks_sent_ |-> 0, call |-> NoManagerCall]

ManagerIdle == manager = NewManager

\* the first loop of send_with_fec and the padding loop after it: block i
\* (1-based) of the k blocks encoded, cut from data and filled with zeros
ManagerBlock(mgr, data, i) ==
    [j \in 1..mgr.fec_block_size_ |->
        IF (i - 1) * mgr.fec_block_size_ + j <= Len(data)
          THEN data[(i - 1) * mgr.fec_block_size_ + j] ELSE 0]

\* MPQUICManager::send_with_fec(data): [mgr, ret, handed, threw]; handed are
\* the data blocks passed to send_data_on_path
SendWithFec(mgr, data, dropped) ==
    LET k == mgr.fec_k_
        blocks == [i \in 1..k |-> ManagerBlock(mgr, data, i)]
        enc == Encode(k, mgr.fec_m_, mgr.fec_block_size_, blocks)
        failed == {i \in 1..k : i \in dropped}
        first == CHOOSE i \in failed : \A x \in failed : i <= x
        parity_sent == Cardinality({p \in 1..mgr.fec_m_ : k + p \notin dropped})
    IN IF enc.threw
         THEN [mgr |-> mgr, ret |-> FALSE, handed |-> <<>>, threw |-> TRUE]
       ELSE IF failed # {}
         THEN [mgr |-> [mgr EXCEPT !.total_bytes_sent_ =
                           @ + (first - 1) * mgr.fec_block_size_],
               ret |-> FALSE, handed |-> SubSeq(blocks, 1, first),
               threw |-> FALSE]
       ELSE [mgr |-> [mgr EXCEPT
                        !.total_bytes_sent_ =
                            @ + (k + parity_sent) * mgr.fec_block_size_,
                        !.fec_blocks_sent_ = @ + parity_sent],
             ret |-> TRUE, handed |-> blocks, threw |-> FALSE]

\* MPQUICManager::send_without_fec(data): one send_data_on_path of data
SendWithoutFec(mgr, data, dropped) ==
    IF 1 \in dropped
      THEN [mgr |-> mgr, ret |-> FALSE, handed |-> <<data>>, threw |-> FALSE]
      ELSE [mgr |-> [mgr EXCEPT !.total_bytes_sent_ = @ + Len(data)],
            ret |-> TRUE, handed |-> <<data>>, threw |-> FALSE]

\* MPQUICManager::send_data(data, use_fec): [mgr, ret, handed, threw]
SendData(mgr, data, use_fec, dropped) ==
    IF data = <<>>
      THEN [mgr |-> mgr, ret |-> FALSE, handed |-> <<>>, threw |-> FALSE]
    ELSE IF use_fec /\ mgr.fec_enabled_
      THEN SendWithFec(mgr, data, dropped)
    ELSE SendWithoutFec(mgr, data, dropped)

\* MPQUICManager::configure_fec(k, m, block_size), k and m above 0
ConfigureFec(mgr, k, m, block_size) ==
    [mgr EXCEPT !.fec_k_ = k, !.fec_m_ = m, !.fec_block_size_ = block_size]

\* MPQUICManager::enable_fec(enable)
EnableFec(mgr, enable) == [mgr EXCEPT !.fec_enabled_ = enable]

-----------------------------------------------------------------------------
(* The codec harness: one encoder and one decoder built with the same   *)
(* (k, m, block_size), as in demo_fec_encoding                           *)

\* block d+1 of the demo's test data has bytes ((seed) * (j + 1)) % 256
CodecSeeds == {0, 1, 3}
CodecBlocks == {[j \in 1..CodecBlockSize |-> (b * j) % 256] : b \in CodecSeeds}

\* the block with index id of the encoded group: a source block below k,
\* a repair block from k on
GroupBlock(id) ==
    IF id < enc_k THEN data_blocks[id + 1] ELSE parity_blocks[id - enc_k + 1]

CodecIdle ==
    /\ enc_k = 1 /\ enc_m = 1
    /\ data_blocks = <<>> /\ parity_blocks = <<>>
    /\ received_blocks = <<>>
    /\ decoded = [status |-> "idle", blocks |-> <<>>]

CodecInit ==
    /\ enc_k \in 1..MaxK
    /\ enc_m \in 1..MaxM
    /\ data_blocks \in [1..enc_k -> CodecBlocks]
    /\ parity_blocks = <<>>
    /\ received_blocks = <<>>
    /\ decoded = [status |-> "none", blocks |-> <<>>]

\* encoder.encode(data_blocks)
CodecEncode ==
    /\ parity_blocks = <<>>
    /\ parity_blocks' = Encode(enc_k, enc_m, CodecBlockSize, data_blocks).blocks
    /\ UNCHANGED <<enc_k, enc_m, data_blocks, received_blocks, decoded, notCodec>>

\* the caller appends block id of the group to the list it will decode
CodecReceive(id) ==
    /\ parity_blocks # <<>>
    /\ decoded.status = "none"
    /\ Len(received_blocks) < enc_k
    /\ received_blocks' = Append(received_blocks,
                                 [id |-> id, block |-> GroupBlock(id)])
    /\ UNCHANGED <<enc_k, enc_m, data_blocks, parity_blocks, decoded, notCodec>>

\* decoder.decode(received_blocks, block_ids)
CodecDecode ==
    /\ parity_blocks # <<>>
    /\ decoded.status = "none"
    /\ LET r == Decode(enc_k, CodecBlockSize, received_blocks) IN
         decoded' = [status |-> IF r.threw THEN "error" ELSE "ok",
                     blocks |-> r.blocks]
    /\ UNCHANGED <<enc_k, enc_m, data_blocks, parity_blocks, received_blocks, notCodec>>

CodecNext ==
    \/ CodecEncode
    \/ \E id \in 0..(enc_k + enc_m - 1) : CodecReceive(id)
    \/ CodecDecode

-----------------------------------------------------------------------------
(* The frame harness: a well-formed frame is serialized and parsed back *)

GroupIdSamples == {0, 1, 258, 1588444911}
BlockIndexSamples == {0, 7, 65793}
TotalBlocksSamples == {10, 300}
PayloadBytes == {0, 170, 255}

RECURSIVE SeqsUpTo(_, _)
\* the sequences over S of length at most n
SeqsUpTo(S, n) ==
    IF n = 0 THEN {<<>>}
    ELSE LET shorter == SeqsUpTo(S, n - 1) IN
         shorter \cup {Append(q, x) : q \in {t \in shorter : Len(t) = n - 1}, x \in S}

\* the well-formed frames: a source or repair type, payload_length equal to
\* the payload's size
WellFormedFrames ==
    {[header |-> [frame_type |-> t, group_id |-> g, block_index |-> b,
                  total_blocks |-> n, payload_length |-> Len(pl)],
      payload |-> pl] :
        t \in {FEC_SOURCE_FRAME, FEC_REPAIR_FRAME}, g \in GroupIdSamples,
        b \in BlockIndexSamples, n \in TotalBlocksSamples,
        pl \in SeqsUpTo(PayloadBytes, MaxPayload)}

FrameIdle ==
    /\ frame = NoFrame
    /\ wire = <<>>
    /\ parsed = [status |-> "idle", frame |-> NoFrame]

FrameInit ==
    /\ frame \in WellFormedFrames
    /\ wire = <<>>
    /\ parsed = [status |-> "none", frame |-> NoFrame]

\* wire = frame.serialize()
DoSerialize ==
    /\ wire = <<>>
    /\ wire' = FrameSerialize(frame)
    /\ UNCHANGED <<frame, parsed, notFrame>>

\* FECFrame::deserialize(wire.data(), wire.size())
DoDeserialize ==
    /\ wire # <<>>
    /\ parsed.status = "none"
    /\ parsed' = FrameDeserialize(wire)
    /\ UNCHANGED <<frame, wire, notFrame>>

FrameNext == DoSerialize \/ DoDeserialize

-----------------------------------------------------------------------------
(* The parse harness: the bytes of a serialized frame are cut short or      *)
(* altered before FECFrame::deserialize reads them                          *)

\* first bytes that are no FEC frame type: STREAM_FRAME and two others
OtherTypes == {8, 0, 255}
\* lengths the input is cut to
CutLengths == {0, 1, HEADER_SIZE - 1, HEADER_SIZE, HEADER_SIZE + 1}

ParseInit ==
    /\ frame \in WellFormedFrames
    /\ wire = FrameSerialize(frame)
    /\ parsed = [status |-> "none", frame |-> NoFrame]

\* the caller holds only the first len bytes
Truncate(len) ==
    /\ parsed.status = "none"
    /\ Len(wire) = Len(FrameSerialize(frame))
    /\ len < Len(wire)
    /\ wire' = SubSeq(wire, 1, len)
    /\ UNCHANGED <<frame, parsed, notFrame>>

\* the first byte holds another value
SetType(t) ==
    /\ parsed.status = "none"
    /\ Len(wire) >= 1
    /\ wire[1] = frame.header.frame_type
    /\ wire' = [wire EXCEPT ![1] = t]
    /\ UNCHANGED <<frame, parsed, notFrame>>

\* the payload length field holds a larger value: byte at offset pos raised
SetLength(pos) ==
    /\ parsed.status = "none"
    /\ Len(wire) >= 21
    /\ SubSeq(wire, 18, 21) = BigEndian(frame.header.payload_length, 4)
    /\ wire' = [wire EXCEPT ![pos + 1] = @ + 1]
    /\ UNCHANGED <<frame, parsed, notFrame>>

\* FECFrame::deserialize(wire.data(), wire.size())
Parse ==
    /\ parsed.status = "none"
    /\ parsed' = FrameDeserialize(wire)
    /\ UNCHANGED <<frame, wire, notFrame>>

ParseNext ==
    \/ \E len \in CutLengths : Truncate(len)
    \/ \E t \in OtherTypes : SetType(t)
    \/ \E pos \in {17, 20} : SetLength(pos)
    \/ Parse

-----------------------------------------------------------------------------
(* The receive harness: the frames of groups a sender sealed are delivered *)
(* to on_frame_received in any order, any number of times                  *)

\* the group ids whose frames are delivered
RxGroupIds == {1, 2}
\* the rates (k, m) the sender sealed them with; the controller's
\* redundancy_rate_to_params yields k in {4, 8, 10} and m in 1..k
RxRates == {<<2, 1>>, <<2, 2>>, <<3, 1>>}
\* bytes per block of those groups
RxBlockSize == 2

\* source block d (0-based) of group g
TxSource(g, d) == [j \in 1..RxBlockSize |-> (16 * g + 4 * d + j) % 256]

\* the frame with block index idx of group g sealed with rate:
\* wrap_source_frame for idx < k, perform_encoding's repair frame otherwise
TxFrame(g, rate, idx) ==
    LET k == rate[1]
        m == rate[2]
        sources == [d \in 1..k |-> TxSource(g, d - 1)]
        payload == IF idx < k THEN sources[idx + 1]
                   ELSE Encode(k, m, RxBlockSize, sources).blocks[idx - k + 1]
    IN [header |-> [frame_type |-> IF idx < k THEN FEC_SOURCE_FRAME
                                   ELSE FEC_REPAIR_FRAME,
                    group_id |-> g,
                    block_index |-> idx,
                    total_blocks |-> k + m,
                    payload_length |-> Len(payload)],
        payload |-> payload]

\* group g as sealed with rate: its k + m frames in index order
TxGroup(g, rate) ==
    [k |-> rate[1], m |-> rate[2],
     frames |-> [n \in 1..(rate[1] + rate[2]) |-> TxFrame(g, rate, n - 1)]]

\* what a delivery found: whether the index was new, how many indices the
\* group held, the payload held for the index and whether the group was
\* already decoded; again counts the deliveries of an altered frame
NoDelivery ==
    [group |-> 0, index |-> 0, fresh |-> FALSE, held |-> 0,
     stored |-> <<>>, was_complete |-> FALSE, again |-> 0]

RxIdle ==
    /\ receive_hook_ = NewReceiveHook
    /\ tx_groups = <<>>
    /\ rx_last = NoDelivery
    /\ rx_ret = <<>>

RxInit ==
    /\ receive_hook_ = NewReceiveHook
    /\ \E rates \in [RxGroupIds -> RxRates] :
          tx_groups = [g \in RxGroupIds |-> TxGroup(g, rates[g])]
    /\ rx_last = NoDelivery
    /\ rx_ret = <<>>

\* the block indices the hook holds for group g
HeldIndices(g) ==
    IF g \in DOMAIN receive_hook_.received_groups_
      THEN DOMAIN receive_hook_.received_groups_[g].received_frames
      ELSE {}

\* receive_hook.on_frame_received(f), f carrying index idx of group g
DeliverFrame(g, idx, f, again) ==
    LET r == OnFrameReceived(receive_hook_, f) IN
    /\ receive_hook_' = r.hook
    /\ rx_ret' = r.ret
    /\ rx_last' =
          [group |-> g, index |-> idx, fresh |-> idx \notin HeldIndices(g),
           held |-> Cardinality(HeldIndices(g)),
           stored |-> IF idx \in HeldIndices(g)
                        THEN receive_hook_.received_groups_[g]
                                 .received_frames[idx].payload
                        ELSE <<>>,
           was_complete |-> /\ g \in DOMAIN receive_hook_.received_groups_
                            /\ receive_hook_.received_groups_[g].is_complete,
           again |-> again]
    /\ UNCHANGED <<tx_groups, notRx>>

\* receive_hook.on_frame_received(frame idx of group g)
Deliver(g, idx) ==
    DeliverFrame(g, idx, tx_groups[g].frames[idx + 1], rx_last.again)

\* the frame with another payload of the same length
OtherPayload(f) ==
    [f EXCEPT !.payload = [j \in 1..Len(f.payload) |-> (f.payload[j] + 1) % 256]]

\* receive_hook.on_frame_received of a frame that carries an index the
\* hook already holds for group g, with another payload
DeliverAgain(g, idx) ==
    /\ rx_last.again < MaxAgain
    /\ idx \in HeldIndices(g)
    /\ DeliverFrame(g, idx, OtherPayload(tx_groups[g].frames[idx + 1]),
                    rx_last.again + 1)

RxNext ==
    \E g \in RxGroupIds : \E idx \in 0..(Len(tx_groups[g].frames) - 1) :
        Deliver(g, idx)

\* deliveries, some of them of a frame altered on the way
RedeliverNext ==
    \/ \E g \in RxGroupIds : \E idx \in 0..(Len(tx_groups[g].frames) - 1) :
          Deliver(g, idx)
    \/ \E g \in RxGroupIds : \E idx \in 0..(Len(tx_groups[g].frames) - 1) :
          DeliverAgain(g, idx)

-----------------------------------------------------------------------------
(* The group-manager harness: add_source_packet, flush_pending_groups,   *)
(* update_coding_params and cleanup_old_groups in any order, with blocks  *)
(* of block_size bytes and rates with k >= 1 and m >= 1                  *)

GmBlockSize == 2
GmPayloads == {[j \in 1..GmBlockSize |-> b * j] : b \in {1, 2}}
GmRates == {<<1, 1>>, <<2, 1>>, <<3, 2>>}

NoCall == [op |-> "none", ret |-> 0, flushed |-> <<>>, threw |-> FALSE,
           had |-> 0, gid |-> 0, changed |-> FALSE, prev_max |-> 0,
           rate |-> <<0, 0>>, data |-> <<>>]

RECURSIVE MaxOf(_, _)
\* the largest of floor and the elements of ids
MaxOf(ids, floor) ==
    IF ids = <<>> THEN floor ELSE MaxOf(Tail(ids), Max(floor, Head(ids)))

\* what a call found: the source packets and id of the current group, and
\* the largest group id the calls before it returned
Call(op, ret, flushed, threw, changed) ==
    [op |-> op, ret |-> ret, flushed |-> flushed, threw |-> threw,
     had |-> Len(group_manager_.current_group_.source_packets),
     gid |-> group_manager_.current_group_.group_id,
     changed |-> changed,
     prev_max |-> MaxOf(gm_ret.flushed, Max(gm_ret.prev_max, gm_ret.ret)),
     rate |-> <<0, 0>>, data |-> <<>>]

GmIdle ==
    /\ group_manager_ = <<>>
    /\ now = 0
    /\ gm_ret = NoCall

GmInit ==
    /\ now = 0
    /\ \E rate \in GmRates :
          group_manager_ = NewGroupManager(rate[1], rate[2], GmBlockSize)
    /\ gm_ret = NoCall

GmRoom ==
    /\ group_manager_.next_group_id_ <= MaxGroups
    /\ Len(group_manager_.current_group_.source_packets) < MaxPending

\* group_manager.add_source_packet(packet)
GmAddSource(data) ==
    /\ GmRoom
    /\ LET r == AddSourcePacket(group_manager_, data) IN
         /\ group_manager_' = r.gm
         /\ gm_ret' = [Call("add_source_packet", r.ret, <<>>, r.threw, FALSE)
                         EXCEPT !.data = data]
    /\ UNCHANGED <<now, notGm>>

\* group_manager.flush_pending_groups()
GmFlush ==
    /\ GmRoom
    /\ LET r == FlushPendingGroups(group_manager_) IN
         /\ group_manager_' = r.gm
         /\ gm_ret' = Call("flush_pending_groups", 0, r.ret, r.threw, FALSE)
    /\ UNCHANGED <<now, notGm>>

\* group_manager.update_coding_params(k, m)
GmUpdateRate(k, m) ==
    /\ GmRoom
    /\ LET r == UpdateCodingParams(group_manager_, k, m) IN
         /\ group_manager_' = r.gm
         /\ gm_ret' = [Call("update_coding_params", 0, <<>>, r.threw,
                            k # group_manager_.current_k_
                              \/ m # group_manager_.current_m_)
                         EXCEPT !.rate = <<k, m>>]
    /\ UNCHANGED <<now, notGm>>

\* group_manager.cleanup_old_groups(before_group_id)
GmCleanup(before_group_id) ==
    /\ group_manager_' = CleanupOldGroups(group_manager_, before_group_id)
    /\ gm_ret' = Call("cleanup_old_groups", 0, <<>>, FALSE, FALSE)
    /\ UNCHANGED <<now, notGm>>

GmNext ==
    \/ \E data \in GmPayloads : GmAddSource(data)
    \/ GmFlush
    \/ \E rate \in GmRates : GmUpdateRate(rate[1], rate[2])
    \/ \E before \in 1..MaxGroups : GmCleanup(before)

\* rates with k = 0, with m = 0 and with k + m > 255
InvalidRates == {<<0, 1>>, <<1, 0>>, <<1, 255>>}

\* source packets are added and flushed, and update_coding_params is called
\* with an invalid rate; the harness stops once an invalid rate is in place
RateInPlaceIsValid ==
    <<group_manager_.current_k_, group_manager_.current_m_>> \in GmRates

BadRateAdd(data) == RateInPlaceIsValid /\ GmAddSource(data)

BadRateFlush == RateInPlaceIsValid /\ GmFlush

BadRateUpdate(k, m) == RateInPlaceIsValid /\ GmUpdateRate(k, m)

BadRateNext ==
    \/ \E data \in GmPayloads : BadRateAdd(data)
    \/ BadRateFlush
    \/ \E rate \in InvalidRates : BadRateUpdate(rate[1], rate[2])

\* blocks shorter and longer than block_size
WrongSizePayloads == {[j \in 1..n |-> 3 * j] : n \in {GmBlockSize - 1, GmBlockSize + 1}}

\* source packets of the right and of a wrong size are added, and flushed
BadBlockNext ==
    \/ \E data \in GmPayloads \cup WrongSizePayloads : GmAddSource(data)
    \/ GmFlush

-----------------------------------------------------------------------------
(* The controller harness: a freshly constructed controller and any     *)
(* interleaving of initialize, add_path, send_stream_data,               *)
(* periodic_update, set_fec_enabled and the passing of time              *)

PathIds == {0, 1}

\* what add_path reports of a path: path 0 has rtt 10 ms and 10 Mbit/s,
\* path 1 rtt 20 ms and 40 Mbit/s; either loses 35 % or 90 % of its packets
PathProfiles(path_id) ==
    {[rtt_ms |-> 10 * (path_id + 1), loss_rate |-> loss,
      bandwidth_mbps |-> IF path_id = 0 THEN 100 ELSE 400] : loss \in {35, 90}}

\* the rate the controller is constructed with
CtlDefaultRate == <<2, 1>>

\* a payload of exactly block_size bytes
BlockPayloads == {[j \in 1..GmBlockSize |-> 16 + j]}
\* payloads shorter than, equal to and longer than block_size
StreamSizes == {1, GmBlockSize, GmBlockSize + 1, 2 * GmBlockSize + 1}
StreamPayloads == {[j \in 1..n |-> 16 + j] : n \in StreamSizes}

\* what an unassigned FECFrameHeader may hold
UninitHeaders ==
    {[frame_type |-> 0, group_id |-> 0, block_index |-> 0,
      total_blocks |-> 0, payload_length |-> 0],
     [frame_type |-> 205, group_id |-> 3, block_index |-> 1,
      total_blocks |-> 7, payload_length |-> 9]}

\* the first tick at which the clock reads at least UPDATE_INTERVAL_MS
StartTick == (UPDATE_INTERVAL_MS + TickMs - 1) \div TickMs

\* the members of the controller, as one record
Controller ==
    [group_manager_ |-> group_manager_,
     send_hook_ |-> send_hook_,
     path_scheduler_ |-> path_scheduler_,
     oco_controller_ |-> oco_controller_,
     pkt_mapper_ |-> pkt_mapper_,
     next_packet_numbers_ |-> next_packet_numbers_,
     fec_enabled_ |-> fec_enabled_,
     current_decision_ |-> current_decision_,
     last_update_time_us_ |-> last_update_time_us_,
     stats_ |-> stats_]

IsController(c) ==
    /\ group_manager_ = c.group_manager_
    /\ send_hook_ = c.send_hook_
    /\ path_scheduler_ = c.path_scheduler_
    /\ oco_controller_ = c.oco_controller_
    /\ pkt_mapper_ = c.pkt_mapper_
    /\ next_packet_numbers_ = c.next_packet_numbers_
    /\ fec_enabled_ = c.fec_enabled_
    /\ current_decision_ = c.current_decision_
    /\ last_update_time_us_ = c.last_update_time_us_
    /\ stats_ = c.stats_

BecomesController(c) ==
    /\ group_manager_' = c.group_manager_
    /\ send_hook_' = c.send_hook_
    /\ path_scheduler_' = c.path_scheduler_
    /\ oco_controller_' = c.oco_controller_
    /\ pkt_mapper_' = c.pkt_mapper_
    /\ next_packet_numbers_' = c.next_packet_numbers_
    /\ fec_enabled_' = c.fec_enabled_
    /\ current_decision_' = c.current_decision_
    /\ last_update_time_us_' = c.last_update_time_us_
    /\ stats_' = c.stats_

\* the source blocks the group manager holds, sealed or pending
TotalSourceBlocks(gm) ==
    LET ids == AscendingKeys(DOMAIN gm.encoded_groups_)
        counts == [i \in 1..Len(ids) |-> Len(gm.encoded_groups_[ids[i]].source_packets)]
        Sum[i \in 0..Len(ids)] == IF i = 0 THEN 0 ELSE Sum[i - 1] + counts[i]
    IN Sum[Len(ids)] + Len(gm.current_group_.source_packets)

\* how many of the packets in result went out on path p
CountOnPath(result, p) ==
    Cardinality({i \in 1..Len(result) : result[i].path_id = p})

NoCtlCall ==
    [op |-> "none", threw |-> FALSE, result |-> <<>>, sealed |-> FALSE,
     fec |-> FALSE, payload_length |-> 0, prev_blocks |-> 0,
     prev_group |-> 0, prev_emitted |-> [p \in PathIds |-> 0],
     before_group_id |-> 0, ran |-> FALSE, args |-> <<>>, path |-> 0,
     stream_data |-> <<>>]

\* the tick at which the current group of controller c was created, given
\* the one of the current group before the call: FECGroup::created_time_us
CreatedAt(c, before) ==
    IF c.group_manager_.current_group_.group_id
         = group_manager_.current_group_.group_id
      THEN before
      ELSE now

NoHistory ==
    [sends |-> 0, adds |-> 0, emitted |-> [p \in PathIds |-> 0], last_group |-> 0,
     decided |-> FALSE, correlated |-> {}, effective_at |-> -1,
     created_at |-> StartTick, emitted_groups |-> {}]

CtlIdle ==
    /\ send_hook_ = [fec_enabled_ |-> TRUE]
    /\ path_scheduler_ = NewPathScheduler
    /\ oco_controller_ = NewOcoController
    /\ pkt_mapper_ = NewPacketNumberMapper
    /\ next_packet_numbers_ = <<>>
    /\ fec_enabled_ = TRUE
    /\ current_decision_ = DefaultDecision
    /\ last_update_time_us_ = 0
    /\ stats_ = NewStatistics
    /\ ctl_ret = NoCtlCall
    /\ history = NoHistory

CtlInit ==
    /\ now = StartTick
    /\ IsController(NewController(CtlDefaultRate[1], CtlDefaultRate[2],
                                  GmBlockSize))
    /\ gm_ret = NoCall
    /\ ctl_ret = NoCtlCall
    /\ history = NoHistory

\* controller.initialize(), called first if it is called
CtlInitialize ==
    /\ ctl_ret = NoCtlCall
    /\ history = NoHistory
    /\ last_update_time_us_ = 0
    /\ BecomesController(Initialize(Controller, TimestampUs(now)))
    /\ ctl_ret' = NoCtlCall
    /\ history' = [history EXCEPT !.effective_at = now]
    /\ UNCHANGED <<now, notCtl>>

\* controller.add_path(path_id, state), state.path_id being path_id
CtlAddPath(path_id, profile) ==
    /\ history.adds < MaxAdds
    /\ BecomesController(AddPath(Controller, path_id,
           [path_id |-> path_id, rtt_ms |-> profile.rtt_ms,
            loss_rate |-> profile.loss_rate,
            bandwidth_mbps |-> profile.bandwidth_mbps]))
    /\ ctl_ret' = NoCtlCall
    /\ history' = [history EXCEPT !.adds = @ + 1]
    /\ UNCHANGED <<now, notCtl>>

\* controller.set_fec_enabled(enabled)
CtlSetFecEnabled(enabled) ==
    /\ enabled # fec_enabled_
    /\ BecomesController(SetFecEnabled(Controller, enabled))
    /\ ctl_ret' = NoCtlCall
    /\ UNCHANGED <<now, history, notCtl>>

\* controller.send_stream_data(stream_data, original_path_id)
SendCall(stream_data, original_path_id) ==
    /\ \E uninit \in UninitHeaders :
       \E r \in {SendStreamData(Controller, stream_data, original_path_id, uninit)} :
            /\ BecomesController(r.c)
            /\ ctl_ret' = [op |-> "send_stream_data",
                           threw |-> r.threw,
                           result |-> r.result,
                           sealed |-> r.sealed,
                           fec |-> fec_enabled_,
                           payload_length |-> Len(stream_data),
                           prev_blocks |-> TotalSourceBlocks(group_manager_),
                           prev_group |-> history.last_group,
                           prev_emitted |-> history.emitted,
                           before_group_id |-> 0,
                           ran |-> FALSE,
                           args |-> <<original_path_id>>,
                           path |-> 0,
                           stream_data |-> stream_data]
            /\ history' = [history EXCEPT
                   !.sends = @ + 1,
                   !.emitted = [p \in PathIds |->
                                   history.emitted[p] + CountOnPath(r.result, p)],
                   !.last_group =
                       IF fec_enabled_ /\ r.result # <<>>
                         THEN r.result[Len(r.result)].frame.header.group_id
                         ELSE history.last_group,
                   !.created_at = CreatedAt(r.c, @),
                   !.emitted_groups =
                       IF fec_enabled_
                         THEN @ \cup {r.result[i].frame.header.group_id :
                                         i \in 1..Len(r.result)}
                         ELSE @]
    /\ UNCHANGED <<now, notCtl>>

\* a send of a payload of block_size bytes
CtlSend(stream_data, original_path_id) ==
    /\ history.sends < MaxSends
    /\ SendCall(stream_data, original_path_id)

\* controller.periodic_update()
CtlPeriodicUpdate ==
    /\ \E r \in {PeriodicUpdate(Controller, TimestampUs(now))} :
          /\ BecomesController(r.c)
          /\ ctl_ret' = [NoCtlCall EXCEPT !.op = "periodic_update",
                                          !.threw = r.threw,
                                          !.ran = r.ran]
          /\ history' = [history EXCEPT
                 !.decided = history.decided \/ r.ran,
                 !.effective_at = IF r.ran THEN now ELSE @,
                 !.created_at = CreatedAt(r.c, @)]
    /\ UNCHANGED <<now, notCtl>>

\* the clock advances
Tick ==
    /\ now < MaxTime
    /\ now' = now + 1
    /\ UNCHANGED <<group_manager_, ctlVars, notCtl>>

CtlNext ==
    \/ CtlInitialize
    \/ \E path_id \in PathIds : \E profile \in PathProfiles(path_id) :
          CtlAddPath(path_id, profile)
    \/ \E enabled \in BOOLEAN : CtlSetFecEnabled(enabled)
    \/ \E data \in BlockPayloads, origin \in PathIds : CtlSend(data, origin)
    \/ CtlPeriodicUpdate
    \/ Tick

-----------------------------------------------------------------------------
(* The stream harness: a controller with both paths added, as the demo   *)
(* sets it up, then any interleaving of send_stream_data,                *)
(* periodic_update and the passing of time                               *)

StreamInit ==
    /\ now = StartTick
    /\ \E p0 \in PathProfiles(0), p1 \in PathProfiles(1) :
          IsController(
              AddPath(AddPath(NewController(CtlDefaultRate[1], CtlDefaultRate[2],
                                            GmBlockSize),
                              0, [path_id |-> 0, rtt_ms |-> p0.rtt_ms,
                                  loss_rate |-> p0.loss_rate,
                                  bandwidth_mbps |-> p0.bandwidth_mbps]),
                      1, [path_id |-> 1, rtt_ms |-> p1.rtt_ms,
                          loss_rate |-> p1.loss_rate,
                          bandwidth_mbps |-> p1.bandwidth_mbps]))
    /\ gm_ret = NoCall
    /\ ctl_ret = NoCtlCall
    /\ history = NoHistory

\* a send of a payload of block_size bytes
StreamSend(stream_data, original_path_id) ==
    /\ history.sends < MaxStream
    /\ SendCall(stream_data, original_path_id)

StreamNext ==
    \/ \E data \in BlockPayloads, origin \in PathIds : StreamSend(data, origin)
    \/ CtlPeriodicUpdate
    \/ Tick

\* a send of a payload of block_size bytes by a host that also calls
\* periodic_update
StrandSend(stream_data, original_path_id) ==
    /\ history.sends < MaxStrandSends
    /\ SendCall(stream_data, original_path_id)

StrandNext ==
    \/ \E data \in BlockPayloads, origin \in PathIds : StrandSend(data, origin)
    \/ CtlPeriodicUpdate
    \/ Tick

\* a send of a payload of block_size bytes
MapSend(stream_data, original_path_id) ==
    /\ history.sends < MaxMapped
    /\ SendCall(stream_data, original_path_id)

\* paths added, also again, between sends and periodic updates
MapNext ==
    \/ \E path_id \in PathIds : \E profile \in PathProfiles(path_id) :
          CtlAddPath(path_id, profile)
    \/ \E data \in BlockPayloads, origin \in PathIds : MapSend(data, origin)
    \/ CtlPeriodicUpdate

-----------------------------------------------------------------------------
(* The degradation harness: one path is registered with a loss of 2 %,   *)
(* then its state is updated to a higher loss between sends, periodic    *)
(* updates and the passing of time                                       *)

\* the path as it is registered
GoodPath == [path_id |-> 0, rtt_ms |-> 10, loss_rate |-> 2,
             bandwidth_mbps |-> 100]
\* the states it degrades to: a loss of 18 %, 35 % or 90 %
DegradedPaths ==
    {[path_id |-> 0, rtt_ms |-> rtt, loss_rate |-> loss,
      bandwidth_mbps |-> 100] : rtt \in {0, 10, 30}, loss \in {18, 35, 90}}

ShiftInit ==
    /\ now = StartTick
    /\ IsController(AddPath(NewController(CtlDefaultRate[1], CtlDefaultRate[2],
                                          GmBlockSize), 0, GoodPath))
    /\ gm_ret = NoCall
    /\ ctl_ret = NoCtlCall
    /\ history = NoHistory

\* controller.update_path_state(state)
CtlUpdatePathState(state) ==
    /\ BecomesController(UpdatePathState(Controller, state))
    /\ ctl_ret' = [NoCtlCall EXCEPT !.op = "update_path_state"]
    /\ UNCHANGED <<now, history, notCtl>>

ShiftSend(stream_data, original_path_id) ==
    /\ history.sends < MaxShiftSends
    /\ SendCall(stream_data, original_path_id)

ShiftNext ==
    \/ \E state \in DegradedPaths : CtlUpdatePathState(state)
    \/ \E data \in BlockPayloads : ShiftSend(data, 0)
    \/ CtlPeriodicUpdate
    \/ Tick

-----------------------------------------------------------------------------
(* The correlation harness: paths are registered one after the other,    *)
(* loss correlations are reported for any pair, and the scheduler is     *)
(* asked for the repair path of any source path                          *)

CorrPaths == 0..MaxCorrPath
\* the correlations reported, times 100: three within [-1, 1], three outside
RhoSamples == {-90, 10, 90, 150, -250, 300}

\* controller.add_path(path_id, state) of the next path
CorrAddPath(path_id) ==
    /\ path_id \in CorrPaths
    /\ path_id = Cardinality(DOMAIN path_scheduler_.paths_)
    /\ BecomesController(AddPath(Controller, path_id,
           [path_id |-> path_id, rtt_ms |-> 10, loss_rate |-> 2,
            bandwidth_mbps |-> 100]))
    /\ ctl_ret' = [NoCtlCall EXCEPT !.op = "add_path", !.args = <<path_id>>]
    /\ UNCHANGED <<now, history, notCtl>>

\* controller.update_loss_correlation(path_i, path_j, rho)
CorrUpdate(path_i, path_j, rho) ==
    /\ Cardinality(history.correlated \cup {<<path_i, path_j>>})
          <= MaxCorrelated
    /\ BecomesController(UpdateLossCorrelation(Controller, path_i, path_j, rho))
    /\ ctl_ret' = [NoCtlCall EXCEPT !.op = "update_loss_correlation",
                                    !.args = <<path_i, path_j, rho>>]
    /\ history' = [history EXCEPT !.correlated = @ \cup {<<path_i, path_j>>}]
    /\ UNCHANGED <<now, notCtl>>

\* path_scheduler_->select_repair_path(source_path_id, packet_size)
CorrSelect(source_path_id) ==
    /\ \E r \in {SchedSelectRepairPath(path_scheduler_, source_path_id)} :
          ctl_ret' = [NoCtlCall EXCEPT !.op = "select_repair_path",
                                      !.args = <<source_path_id>>,
                                      !.threw = r.threw,
                                      !.path = r.path]
    /\ UNCHANGED <<group_manager_, path_scheduler_, oco_controller_,
                   pkt_mapper_, send_hook_, next_packet_numbers_, fec_enabled_,
                   current_decision_, last_update_time_us_, stats_, history,
                   now, notCtl>>

CorrNext ==
    \/ \E path_id \in CorrPaths : CorrAddPath(path_id)
    \/ \E path_i \in CorrPaths, path_j \in CorrPaths, rho \in RhoSamples :
          CorrUpdate(path_i, path_j, rho)
    \/ \E source_path_id \in CorrPaths : CorrSelect(source_path_id)

\* what a call of the mapper alone leaves as it is
notMapper == <<path_scheduler_, oco_controller_, send_hook_,
               next_packet_numbers_, fec_enabled_, current_decision_,
               last_update_time_us_, stats_, history, group_manager_, now,
               notCtl>>

MapperGroups == 1..MaxMapperGroup
MapperPackets == 1..MaxMapperPacket

\* mapper.add_mapping(group_id, block_idx, path_id, pkt_num, is_repair)
MapperAdd(group_id, block_idx, path_id, pkt_num, is_repair) ==
    /\ Len(LiveMappings(pkt_mapper_,
              AscendingKeys(DOMAIN pkt_mapper_.group_to_mappings_)))
          < MaxMappings
    /\ pkt_mapper_' = AddMapping(pkt_mapper_, group_id, block_idx, path_id,
                                 pkt_num, is_repair)
    /\ ctl_ret' = [NoCtlCall EXCEPT !.op = "add_mapping"]
    /\ UNCHANGED notMapper

\* mapper.cleanup_old_mappings(before_group_id)
MapperCleanup(before_group_id) ==
    /\ pkt_mapper_' = CleanupOldMappings(pkt_mapper_, before_group_id)
    /\ ctl_ret' = [NoCtlCall EXCEPT !.op = "cleanup_old_mappings",
                                    !.before_group_id = before_group_id]
    /\ UNCHANGED notMapper

MapperNext ==
    \/ \E group_id \in MapperGroups, path_id \in PathIds,
          pkt_num \in MapperPackets, is_repair \in BOOLEAN :
          MapperAdd(group_id, IF is_repair THEN 1 ELSE 0, path_id, pkt_num,
                    is_repair)
    \/ \E before_group_id \in 1..(MaxMapperGroup + 1) :
          MapperCleanup(before_group_id)

\* what a call of the redundancy controller alone leaves as it is
notRate == <<path_scheduler_, pkt_mapper_, send_hook_, next_packet_numbers_,
             fec_enabled_, last_update_time_us_, stats_, history,
             group_manager_, now, notCtl>>

\* the rates a caller asks set_redundancy_constraints for, 0 and a rate
\* above 1 included
RateSamples == {0, RateDen \div 10, (3 * RateDen) \div 10,
                (6 * RateDen) \div 10, RateDen, (3 * RateDen) \div 2}

\* links that lose 1 %, 10 % or 35 % of their packets
RateProfiles(path_id) ==
    {[path_id |-> path_id, rtt_ms |-> 10 * (path_id + 1), loss_rate |-> loss,
      bandwidth_mbps |-> IF path_id = 0 THEN 100 ELSE 400] : loss \in {1, 10, 35}}

\* oco.set_redundancy_constraints(min_rate, max_rate), min_rate <= max_rate
RateSetConstraints(min_rate, max_rate) ==
    /\ min_rate <= max_rate
    /\ oco_controller_' = SetRedundancyConstraints(oco_controller_, min_rate,
                                                   max_rate)
    /\ ctl_ret' = [NoCtlCall EXCEPT !.op = "set_redundancy_constraints"]
    /\ UNCHANGED <<current_decision_, notRate>>

\* set_fec_strategy(strategy), which touches the redundancy controller only
RateSetStrategy(strategy) ==
    /\ oco_controller_' = SetFecStrategy(Controller, strategy).oco_controller_
    /\ ctl_ret' = [NoCtlCall EXCEPT !.op = "set_fec_strategy"]
    /\ UNCHANGED <<current_decision_, notRate>>

\* oco.update_link_metrics(metrics)
RateUpdateMetrics(metrics) ==
    /\ oco_controller_' = OcoUpdateLinkMetrics(oco_controller_, metrics)
    /\ ctl_ret' = [NoCtlCall EXCEPT !.op = "update_link_metrics"]
    /\ UNCHANGED <<current_decision_, notRate>>

\* current_decision_ = oco.compute_optimal_redundancy()
RateCompute ==
    /\ current_decision_' = ComputeOptimalRedundancy(oco_controller_)
    /\ ctl_ret' = [NoCtlCall EXCEPT !.op = "compute_optimal_redundancy"]
    /\ UNCHANGED <<oco_controller_, notRate>>

RateNext ==
    \/ \E min_rate \in RateSamples, max_rate \in RateSamples :
          RateSetConstraints(min_rate, max_rate)
    \/ \E strategy \in Strategies : RateSetStrategy(strategy)
    \/ \E path_id \in PathIds : \E metrics \in RateProfiles(path_id) :
          RateUpdateMetrics(metrics)
    \/ RateCompute

\* the scheduler harness: path 0 is a fast clean path, path 1 a slow lossy
\* one, path 2 another fast clean one; they are added in this order and
\* each is reported again and again
WeightProfiles ==
    {[path_id |-> 0, rtt_ms |-> 0, loss_rate |-> 0, bandwidth_mbps |-> 10000],
     [path_id |-> 1, rtt_ms |-> 1000, loss_rate |-> 90, bandwidth_mbps |-> 10],
     [path_id |-> 2, rtt_ms |-> 0, loss_rate |-> 0, bandwidth_mbps |-> 10000]}

\* scheduler.update_path_state(state)
WeightsUpdate(state) ==
    /\ history.adds < MaxWeightUpdates
    /\ \A p \in 0..(state.path_id - 1) : p \in DOMAIN path_scheduler_.paths_
    /\ path_scheduler_' = SchedUpdatePathState(path_scheduler_, state)
    /\ history' = [history EXCEPT !.adds = @ + 1]
    /\ ctl_ret' = [NoCtlCall EXCEPT !.op = "update_path_state"]
    /\ UNCHANGED <<oco_controller_, pkt_mapper_, send_hook_,
                   next_packet_numbers_, fec_enabled_, current_decision_,
                   last_update_time_us_, stats_, group_manager_, now, notCtl>>

WeightsNext == \E state \in WeightProfiles : WeightsUpdate(state)

\* what the host reports of a path: a short or a long round trip, 1 % or
\* 60 % of loss, 0.1 or 10 Mbit/s
SourceProfiles ==
    {[path_id |-> path_id, rtt_ms |-> rtt, loss_rate |-> loss,
      bandwidth_mbps |-> bw] :
        path_id \in PathIds, rtt \in {10, 50}, loss \in {1, 60},
        bw \in {1, 100}}

\* scheduler.update_path_state(state)
SourceUpdate(state) ==
    /\ history.adds < MaxSourceUpdates
    /\ path_scheduler_' = SchedUpdatePathState(path_scheduler_, state)
    /\ history' = [history EXCEPT !.adds = @ + 1]
    /\ ctl_ret' = [NoCtlCall EXCEPT !.op = "update_path_state"]
    /\ UNCHANGED <<oco_controller_, pkt_mapper_, send_hook_,
                   next_packet_numbers_, fec_enabled_, current_decision_,
                   last_update_time_us_, stats_, group_manager_, now, notCtl>>

\* scheduler.select_source_path(packet_size)
SourceSelect ==
    /\ \E r \in {SchedSelectSourcePath(path_scheduler_)} :
          ctl_ret' = [NoCtlCall EXCEPT !.op = "select_source_path",
                                      !.threw = r.threw,
                                      !.path = r.path]
    /\ UNCHANGED <<group_manager_, path_scheduler_, oco_controller_,
                   pkt_mapper_, send_hook_, next_packet_numbers_, fec_enabled_,
                   current_decision_, last_update_time_us_, stats_, history,
                   now, notCtl>>

SourceNext ==
    \/ \E state \in SourceProfiles : SourceUpdate(state)
    \/ SourceSelect

\* what a step of one of the two threads leaves as it is
notStats == <<codecVars, frameVars, rxVars, gmVars, path_scheduler_,
              oco_controller_, pkt_mapper_, send_hook_, next_packet_numbers_,
              fec_enabled_, current_decision_, last_update_time_us_, ctl_ret,
              history, manager>>

\* send_stream_data, holding mutex_, has completed a group of k source and
\* m repair frames and enters the loop of assign_packets_to_paths
StatsSendBegin ==
    /\ threads.frames = <<>>
    /\ stats_.fec_groups_created < MaxStatsSends
    /\ threads' = [threads EXCEPT
           !.frames = [i \in 1..(CtlDefaultRate[1] + CtlDefaultRate[2]) |->
                          i > CtlDefaultRate[1]],
           !.counted = FALSE]
    /\ UNCHANGED <<stats_, notStats>>

\* the loop body up to stats_.source_packets_sent++ or
\* stats_.repair_packets_sent++
StatsCountKind ==
    /\ threads.frames # <<>> /\ ~threads.counted
    /\ stats_' = IF Head(threads.frames)
                   THEN [stats_ EXCEPT !.repair_packets_sent = @ + 1]
                   ELSE [stats_ EXCEPT !.source_packets_sent = @ + 1]
    /\ threads' = [threads EXCEPT !.counted = TRUE]
    /\ UNCHANGED notStats

\* stats_.total_packets_sent++ and the rest of the loop body; after the last
\* frame stats_.fec_groups_created++, and send_stream_data returns
StatsCountTotal ==
    /\ threads.frames # <<>> /\ threads.counted
    /\ stats_' = [stats_ EXCEPT
           !.total_packets_sent = @ + 1,
           !.fec_groups_created =
               IF Tail(threads.frames) = <<>> THEN @ + 1 ELSE @]
    /\ threads' = [threads EXCEPT
           !.frames = Tail(@),
           !.counted = FALSE,
           !.whole = IF Tail(threads.frames) = <<>>
                       THEN @ \cup {stats_'} ELSE @]
    /\ UNCHANGED notStats

\* get_statistics() on another thread, which takes no lock: the copy of
\* stats_ reads one member at a time, in no fixed order, and the call
\* returns once every member is copied
StatsCopyMember(member) ==
    /\ threads.reads < MaxSnapshots
    /\ member \notin threads.copied
    /\ \E snapshot \in {[threads.snapshot EXCEPT ![member] = stats_[member]]} :
          threads' =
            IF threads.copied \cup {member} = DOMAIN stats_
              THEN [threads EXCEPT !.copied = {}, !.snapshot = snapshot,
                                   !.returned = snapshot, !.reads = @ + 1]
              ELSE [threads EXCEPT !.copied = @ \cup {member},
                                   !.snapshot = snapshot]
    /\ UNCHANGED <<stats_, notStats>>

StatsNext ==
    \/ StatsSendBegin
    \/ StatsCountKind
    \/ StatsCountTotal
    \/ \E member \in DOMAIN NewStatistics : StatsCopyMember(member)

\* what a call of the manager leaves as it is
notManager == <<codecVars, frameVars, rxVars, gmVars, ctlVars, threads>>

\* the rates and block sizes the host configures
ManagerRates == {<<1, 1>>, <<2, 1>>}
ManagerBlockSizes == {1, 2}
\* the payloads the host sends, the empty one included
ManagerPayloads == {[j \in 1..n |-> 32 + j] : n \in 0..MaxManagerData}

\* manager.configure_fec(k, m, block_size)
ManagerConfigure(k, m, block_size) ==
    /\ manager' = [ConfigureFec(manager, k, m, block_size) EXCEPT
                       !.call = [NoManagerCall EXCEPT !.op = "configure_fec"]]
    /\ UNCHANGED notManager

\* manager.enable_fec(enable)
ManagerEnable(enable) ==
    /\ enable # manager.fec_enabled_
    /\ manager' = [EnableFec(manager, enable) EXCEPT
                       !.call = [NoManagerCall EXCEPT !.op = "enable_fec"]]
    /\ UNCHANGED notManager

\* manager.send_data(data, use_fec) once the host has configured the rate
ManagerSend(data, use_fec, dropped) ==
    /\ manager.fec_k_ < NewManager.fec_k_
    /\ manager.total_bytes_sent_ < MaxManagerSends * MaxManagerData
    /\ \E r \in {SendData(manager, data, use_fec, dropped)} :
          manager' = [r.mgr EXCEPT
                         !.call = [op |-> "send_data", data |-> data,
                                   use_fec |-> use_fec,
                                   fec |-> manager.fec_enabled_,
                                   ret |-> r.ret, handed |-> r.handed]]
    /\ UNCHANGED notManager

ManagerNext ==
    \/ \E rate \in ManagerRates, block_size \in ManagerBlockSizes :
          ManagerConfigure(rate[1], rate[2], block_size)
    \/ \E enable \in BOOLEAN : ManagerEnable(enable)
    \/ \E data \in ManagerPayloads, use_fec \in BOOLEAN,
          dropped \in SUBSET (1..3) : ManagerSend(data, use_fec, dropped)

\* a send of a payload of any length
SliceSend(stream_data, original_path_id) ==
    /\ history.sends < MaxSlices
    /\ SendCall(stream_data, original_path_id)

SliceNext ==
    \E data \in StreamPayloads, origin \in PathIds : SliceSend(data, origin)

-----------------------------------------------------------------------------
(* Specifications *)

InitCodec == CodecInit /\ FrameIdle /\ RxIdle /\ GmIdle /\ CtlIdle /\ ThreadsIdle /\ ManagerIdle

SpecCodec == InitCodec /\ [][CodecNext]_vars

InitFrame == FrameInit /\ CodecIdle /\ RxIdle /\ GmIdle /\ CtlIdle /\ ThreadsIdle /\ ManagerIdle

SpecFrame == InitFrame /\ [][FrameNext]_vars

InitParse == ParseInit /\ CodecIdle /\ RxIdle /\ GmIdle /\ CtlIdle /\ ThreadsIdle /\ ManagerIdle

SpecParse == InitParse /\ [][ParseNext]_vars

InitRecv == RxInit /\ CodecIdle /\ FrameIdle /\ GmIdle /\ CtlIdle /\ ThreadsIdle /\ ManagerIdle

InitGM == GmInit /\ CodecIdle /\ FrameIdle /\ RxIdle /\ CtlIdle /\ ThreadsIdle /\ ManagerIdle

InitCtl == CtlInit /\ CodecIdle /\ FrameIdle /\ RxIdle /\ ThreadsIdle /\ ManagerIdle

SpecCtl == InitCtl /\ [][CtlNext]_vars

InitStream == StreamInit /\ CodecIdle /\ FrameIdle /\ RxIdle /\ ThreadsIdle /\ ManagerIdle

SpecStream == InitStream /\ [][StreamNext]_vars

\* a host that sends and calls periodic_update while time passes
SpecStrand == InitStream /\ [][StrandNext]_vars /\ WF_vars(Tick)

SpecSlice == InitStream /\ [][SliceNext]_vars

SpecMap == InitCtl /\ [][MapNext]_vars

InitMapper == CtlIdle /\ GmIdle /\ CodecIdle /\ FrameIdle /\ RxIdle /\ ThreadsIdle /\ ManagerIdle

SpecMapper == InitMapper /\ [][MapperNext]_vars

InitShift == ShiftInit /\ CodecIdle /\ FrameIdle /\ RxIdle /\ ThreadsIdle /\ ManagerIdle

SpecShift == InitShift /\ [][ShiftNext]_vars

SpecCorr == InitCtl /\ [][CorrNext]_vars

InitRate == CtlIdle /\ GmIdle /\ CodecIdle /\ FrameIdle /\ RxIdle /\ ThreadsIdle /\ ManagerIdle

SpecRate == InitRate /\ [][RateNext]_vars

SpecGM == InitGM /\ [][GmNext]_vars

SpecBadRate == InitGM /\ [][BadRateNext]_vars

SpecWeights == InitRate /\ [][WeightsNext]_vars

SpecSource == InitRate /\ [][SourceNext]_vars

SpecStats == InitRate /\ [][StatsNext]_vars

SpecManager == InitRate /\ [][ManagerNext]_vars

SpecBadBlock == InitGM /\ [][BadBlockNext]_vars

SpecRecv == InitRecv /\ [][RxNext]_vars

SpecRedeliver == InitRecv /\ [][RedeliverNext]_vars

-----------------------------------------------------------------------------
(* Claims *)

\* the ids of a received list are pairwise distinct
DistinctIds(recv) ==
    \A a, b \in 1..Len(recv) : a # b => recv[a].id # recv[b].id

\* C1 (MDS recovery): whenever decode is given k blocks of an encoded group
\* with k distinct indices in 0..k+m-1, it returns the k source blocks in
\* index order.
C1_MDSRecovery ==
    (/\ decoded.status # "none"
     /\ Len(received_blocks) = enc_k
     /\ DistinctIds(received_blocks))
      => (decoded.status = "ok" /\ decoded.blocks = data_blocks)

\* C7 (frame round trip): the serialized frame has 25 + payload_length bytes
\* and parses back to a frame equal to the original in every field.
C7_FrameRoundTrip ==
    /\ wire # <<>> => Len(wire) = 25 + frame.header.payload_length
    /\ parsed.status # "none" => (parsed.status = "ok" /\ parsed.frame = frame)

\* C7 witness: a repair frame with a multi-byte group id, a multi-byte block
\* index and a full payload has been parsed back.
C7_Witness ==
    /\ parsed.status = "ok"
    /\ frame.header.frame_type = FEC_REPAIR_FRAME
    /\ frame.header.group_id > 65535
    /\ frame.header.block_index > 255
    /\ frame.header.total_blocks > 255
    /\ Len(frame.payload) = MaxPayload

\* C2 (receive threshold): for a group sealed with rate (k, m), a delivery
\* returns nothing while fewer than k distinct indices are held, and the
\* delivery of the k-th distinct index returns exactly k blocks.
C2_ReceiveThreshold ==
    rx_last.group # 0 =>
        LET k == tx_groups[rx_last.group].k
            n == Cardinality(HeldIndices(rx_last.group))
        IN /\ n < k => rx_ret = <<>>
           /\ (n = k /\ rx_last.fresh) => Len(rx_ret) = k

\* C4 (rate fixed at creation): every sealed group the manager retains is
\* encoded and has exactly info.k source blocks and info.m repair blocks.
C4_RateFixedAtCreation ==
    \A id \in DOMAIN group_manager_.encoded_groups_ :
        LET g == group_manager_.encoded_groups_[id] IN
        /\ g.is_encoded
        /\ Len(g.source_packets) = g.info.k
        /\ Len(g.repair_frames) = g.info.m

\* C5 (update_rate flushes): with blocks of block_size bytes and valid rates
\* only, no call leaves by an exception, and an update_coding_params that
\* changes the rate while the current group holds n >= 1 blocks seals that
\* group and leaves an empty current group.
C5_UpdateRateFlushes ==
    /\ ~gm_ret.threw
    /\ (gm_ret.op = "update_coding_params" /\ gm_ret.changed /\ gm_ret.had >= 1)
         => /\ gm_ret.gid \in DOMAIN group_manager_.encoded_groups_
            /\ group_manager_.current_group_.source_packets = <<>>

\* the packets of result that went out on path p, in emission order
OnPath(result, p) == SelectSeq(result, LAMBDA meta : meta.path_id = p)

\* C3 (packet-number uniqueness): the packets a send_stream_data call emits
\* on a registered path p carry, in emission order, the packet numbers that
\* follow the count of packets emitted on p before the call, so that the
\* numbers emitted on p are 1, 2, 3, ... without gap or repeat.
C3_PacketNumberUniqueness ==
    (ctl_ret.op = "send_stream_data" /\ ~ctl_ret.threw) =>
        \A p \in DOMAIN path_scheduler_.paths_ :
            \A i \in 1..Len(OnPath(ctl_ret.result, p)) :
                OnPath(ctl_ret.result, p)[i].packet_number
                    = ctl_ret.prev_emitted[p] + i

\* every source block the group manager holds, pending or sealed, has
\* block_size bytes
AllBlocksOfBlockSize(gm) ==
    /\ \A i \in 1..Len(gm.current_group_.source_packets) :
           Len(gm.current_group_.source_packets[i]) = gm.block_size_
    /\ \A id \in DOMAIN gm.encoded_groups_ :
           \A i \in 1..Len(gm.encoded_groups_[id].source_packets) :
               Len(gm.encoded_groups_[id].source_packets[i]) = gm.block_size_

\* C6 (payload slicing): with FEC enabled, a send_stream_data of n bytes
\* that returns adds ceil(n / block_size) source blocks to the group
\* manager, and every source block the manager holds has block_size bytes.
C6_PayloadSlicing ==
    (ctl_ret.op = "send_stream_data" /\ ctl_ret.fec /\ ~ctl_ret.threw) =>
        /\ TotalSourceBlocks(group_manager_) - ctl_ret.prev_blocks
              = CeilDiv(ctl_ret.payload_length, group_manager_.block_size_)
        /\ AllBlocksOfBlockSize(group_manager_)

\* C8 (no-paths failure): a send_stream_data in which a group seals while no
\* registered path is available leaves by an exception and emits no packet.
C8_NoPathsFailure ==
    (/\ ctl_ret.op = "send_stream_data"
     /\ ctl_ret.sealed
     /\ \A p \in DOMAIN path_scheduler_.paths_ :
            ~IsPathAvailable(path_scheduler_, p))
      => (ctl_ret.threw /\ ctl_ret.result = <<>>)

\* C9 (paths follow the decision): once periodic_update has produced the
\* current decision, every packet a sealing send_stream_data emits is on
\* the decision's source_path if it is a source frame and on its
\* repair_path if it is a repair frame.
C9_PathsFollowDecision ==
    (/\ ctl_ret.op = "send_stream_data"
     /\ ctl_ret.sealed
     /\ ~ctl_ret.threw
     /\ history.decided)
      => \A i \in 1..Len(ctl_ret.result) :
             ctl_ret.result[i].path_id =
                 IF ctl_ret.result[i].is_repair
                   THEN current_decision_.repair_path
                   ELSE current_decision_.source_path

\* C10 (emit order): a send_stream_data that emits packets emits the frames
\* of one group, whose id is larger than that of every group emitted
\* before: the k source frames with block_index 0..k-1 in ascending order,
\* then the m repair frames with block_index k..k+m-1 in ascending order,
\* (k, m) being the rate in force.
C10_EmitOrder ==
    (ctl_ret.op = "send_stream_data" /\ ctl_ret.result # <<>>) =>
        LET result == ctl_ret.result
            k == group_manager_.current_k_
            m == group_manager_.current_m_
        IN /\ Len(result) = k + m
           /\ result[1].frame.header.group_id > ctl_ret.prev_group
           /\ \A i \in 1..Len(result) :
                 /\ result[i].frame.header.group_id
                       = result[1].frame.header.group_id
                 /\ result[i].frame.header.block_index = i - 1
                 /\ result[i].frame.header.frame_type =
                       IF i <= k THEN FEC_SOURCE_FRAME ELSE FEC_REPAIR_FRAME

\* C10 witness: a second group was emitted, after periodic_update changed
\* the rate.
C10_Witness ==
    /\ ctl_ret.op = "send_stream_data"
    /\ Len(ctl_ret.result) >= 3
    /\ ctl_ret.prev_group >= 1
    /\ history.decided

\* C11 (group id monotonicity): every non-zero group id that
\* add_source_packet or flush_pending_groups returns is larger than every
\* id returned before, and no id belongs to two groups: a sealed group is
\* stored under its own id, which is below the id of the open group, the
\* last id given out.
C11_GroupIdMonotonic ==
    /\ gm_ret.ret # 0 => gm_ret.ret > gm_ret.prev_max
    /\ \A i \in 1..Len(gm_ret.flushed) : gm_ret.flushed[i] > gm_ret.prev_max
    /\ group_manager_.current_group_.group_id = group_manager_.next_group_id_ - 1
    /\ \A id \in DOMAIN group_manager_.encoded_groups_ :
          /\ group_manager_.encoded_groups_[id].group_id = id
          /\ id < group_manager_.current_group_.group_id

\* C11 witness: add_source_packet returns a group id after an earlier call
\* returned one and a sealed group was cleaned up.
C11_Witness ==
    /\ gm_ret.op = "add_source_packet"
    /\ gm_ret.ret > 1
    /\ gm_ret.prev_max >= 1
    /\ 1 \notin DOMAIN group_manager_.encoded_groups_

\* C12 (duplicate frames are discarded): a frame delivered for an index the
\* hook already holds for a group not yet decoded leaves the number of
\* held indices and the payload held for that index as they were.
C12_DuplicatesDiscarded ==
    (rx_last.group # 0 /\ ~rx_last.fresh /\ ~rx_last.was_complete) =>
        /\ Cardinality(HeldIndices(rx_last.group)) = rx_last.held
        /\ receive_hook_.received_groups_[rx_last.group]
               .received_frames[rx_last.index].payload = rx_last.stored

\* the hook has decoded group g
IsComplete(g) ==
    /\ g \in DOMAIN receive_hook_.received_groups_
    /\ receive_hook_.received_groups_[g].is_complete

\* C13 (decode at most once): a delivery returns blocks only for a group
\* that was not decoded before and is decoded by it; a decoded group stays
\* decoded, and every later frame for it, of a new index or a held one,
\* returns nothing.
C13_DecodeAtMostOnce ==
    [][\A g \in RxGroupIds :
          /\ IsComplete(g) => IsComplete(g)'
          /\ (IsComplete(g) /\ rx_last'.group = g) => rx_ret' = <<>>
          /\ (rx_last'.group = g /\ rx_ret' # <<>>)
                => (~IsComplete(g) /\ IsComplete(g)')]_vars

\* C13 witness: a frame with a new index arrived for a decoded group and
\* returned nothing.
C13_Witness ==
    /\ rx_last.group # 0
    /\ rx_last.was_complete
    /\ rx_last.fresh
    /\ rx_ret = <<>>
    /\ IsComplete(rx_last.group)

\* C14 (mapping key uniqueness): no two live packet mappings share the same
\* (path_id, packet_number).
C14_MappingKeyUnique ==
    LET live == LiveMappings(pkt_mapper_,
                    AscendingKeys(DOMAIN pkt_mapper_.group_to_mappings_))
    IN \A a, b \in 1..Len(live) :
          (a # b) => ~(/\ live[a].path_id = live[b].path_id
                      /\ live[a].packet_number = live[b].packet_number)

\* C15 (mapper cleanup): after cleanup_old_mappings(h), neither lookup returns
\* a mapping of a group below h, and every mapping of a group at or above h
\* that a lookup returned before the call is returned by it after the call.
C15_MapperCleanup ==
    [][\A h \in 1..(MaxMapperGroup + 2) :
         (ctl_ret'.op = "cleanup_old_mappings" /\ ctl_ret'.before_group_id = h)
         =>
         /\ \A g \in 1..(MaxMapperGroup + 1) :
               /\ g < h => FindByGroup(pkt_mapper_', g) = <<>>
               /\ g >= h => FindByGroup(pkt_mapper_', g)
                               = FindByGroup(pkt_mapper_, g)
         /\ \A path_id \in PathIds, pkt \in 1..(MaxMapperPacket + 1) :
               /\ \A i \in 1..Len(FindByPacket(pkt_mapper_', path_id, pkt)) :
                     FindByPacket(pkt_mapper_', path_id, pkt)[i].group_id >= h
               /\ \A i \in 1..Len(FindByPacket(pkt_mapper_, path_id, pkt)) :
                     FindByPacket(pkt_mapper_, path_id, pkt)[i].group_id >= h
                     => FindByPacket(pkt_mapper_', path_id, pkt)
                          = FindByPacket(pkt_mapper_, path_id, pkt)]_vars

\* C16 (decode rejects insufficient input): decode returns a block list only
\* when the received list holds at least k distinct indices in 0..k+m-1; a
\* list that repeated indices bring to length k is rejected.
C16_DecodeRejectsInsufficient ==
    decoded.status = "ok" =>
        Cardinality({received_blocks[i].id : i \in 1..Len(received_blocks)}
                      \cap 0..(enc_k + enc_m - 1)) >= enc_k

\* the value in the bytes at offsets 17..20 of an input of 21 bytes or more
LengthField(data) ==
    data[18] * 16777216 + data[19] * 65536 + data[20] * 256 + data[21]

\* C17 (short input is rejected): deserialize fails, and returns no frame,
\* for every input shorter than 25 bytes and for every input of at least 25
\* bytes that is shorter than 25 plus the payload length its header holds.
C17_ShortInputRejected ==
    (/\ parsed.status # "none"
     /\ \/ Len(wire) < 25
        \/ Len(wire) < 25 + LengthField(wire))
    => (parsed.status \in {"short_header", "short_payload"}
          /\ parsed.frame = NoFrame)

C17_Witness ==
    /\ parsed.status = "short_payload"
    /\ Len(wire) > 25
    /\ Len(wire) < 25 + LengthField(wire)

\* C18 (unknown frame type is rejected): every frame deserialize returns is
\* a source frame or a repair frame; an input whose first byte is neither
\* 0xF0 nor 0xF1 is refused.
C18_UnknownTypeRejected ==
    parsed.status = "ok" =>
        parsed.frame.header.frame_type \in {FEC_SOURCE_FRAME, FEC_REPAIR_FRAME}

\* C19 (systematic identity): encode returns exactly m blocks, and decoding
\* the k source blocks alone, with their indices 0..k-1 listed in any order,
\* returns the source blocks in index order.
C19_SystematicIdentity ==
    /\ parity_blocks # <<>> => Len(parity_blocks) = enc_m
    /\ (/\ decoded.status # "none"
        /\ {received_blocks[i].id : i \in 1..Len(received_blocks)}
              = 0..(enc_k - 1)
        /\ Len(received_blocks) = enc_k)
       => (decoded.status = "ok" /\ decoded.blocks = data_blocks)

\* m of the mapping at rate r for a group of k: clamp(ceil(k * r), 1, k)
ClampedM(k, r) == Max(1, Min(CeilDiv(k * r, RateDen), k))

\* C20 (rate bounds): the decision compute_optimal_redundancy returns,
\* whatever constraints are installed and whatever link metrics are held,
\* none included, has m = clamp(ceil(k * r), 1, k) for some rate r between
\* min_rate and max_rate; the mapping being monotone in r, m then lies
\* between its values at min_rate and at max_rate.
C20_RateBounds ==
    ctl_ret.op = "compute_optimal_redundancy" =>
        /\ ClampedM(current_decision_.k, oco_controller_.min_redundancy_rate_)
              <= current_decision_.m
        /\ current_decision_.m
              <= ClampedM(current_decision_.k,
                          oco_controller_.max_redundancy_rate_)

\* the one registered path has degraded and periodic_update ran past its gate
UpShifted ==
    /\ ctl_ret.op = "periodic_update" /\ ctl_ret.ran
    /\ DOMAIN oco_controller_.link_metrics_ = {0}
    /\ oco_controller_.link_metrics_[0].loss_rate >= 18

\* C21 (adaptive rate up-shift): with one registered path and the default
\* constraints, once the path's loss has gone from 2 % to 18 % or more and
\* periodic_update has run past its gate, the decision has m/k > 0.3 and
\* the group manager's coding parameters are the decision's (k, m).
C21_RateUpShift ==
    UpShifted =>
        /\ 10 * current_decision_.m > 3 * current_decision_.k
        /\ group_manager_.current_k_ = current_decision_.k
        /\ group_manager_.current_m_ = current_decision_.m

C21_Witness ==
    /\ UpShifted
    /\ oco_controller_.link_metrics_[0].loss_rate = 18
    /\ current_decision_.k = 8 /\ current_decision_.m = 3
    /\ group_manager_.current_k_ = 8

\* every correlation the scheduler holds is a correlation: within [-1, 1]
StoredCorrelationsInRange ==
    \A key \in DOMAIN path_scheduler_.path_correlations_ :
        Abs(path_scheduler_.path_correlations_[key]) <= 100

\* |corr(s, c)| as the scheduler reads it
AbsCorr(s, c) == Abs(SchedGetPathCorrelation(path_scheduler_, s, c))

C23_ClampedEverywhere ==
    (ctl_ret.op = "update_loss_correlation" /\ ctl_ret.args[1] # ctl_ret.args[2])
    =>
    LET i == ctl_ret.args[1]
        j == ctl_ret.args[2]
        clamped == Max(-100, Min(100, ctl_ret.args[3]))
    IN /\ SchedGetPathCorrelation(path_scheduler_, i, j) = clamped
       /\ LcmGetCorrelation(oco_controller_.correlation_matrix_, i, j) = clamped

\* the pair was reported, in either order
Correlated(i, j) ==
    <<i, j>> \in history.correlated \/ <<j, i>> \in history.correlated

\* C24 (correlation canonicalization): after any updates, get(i, j) equals
\* get(j, i), get(i, i) is 1 even after update(i, i, rho), and get(i, j) is
\* 0 for two different paths never reported; in the matrix of the
\* redundancy controller and in the scheduler alike.
C24_Canonical ==
    \A i \in CorrPaths, j \in CorrPaths :
        LET lcm(a, b) == LcmGetCorrelation(oco_controller_.correlation_matrix_, a, b)
            sched(a, b) == SchedGetPathCorrelation(path_scheduler_, a, b)
        IN /\ lcm(i, j) = lcm(j, i)
           /\ sched(i, j) = sched(j, i)
           /\ lcm(i, i) = 100 /\ sched(i, i) = 100
           /\ (i # j /\ ~Correlated(i, j)) => (lcm(i, j) = 0 /\ sched(i, j) = 0)

\* C24 witness: update(1, 1, rho) and update(1, 0, rho) were made, and the
\* pair (0, 1) reads a value other than 0.
C24_Witness ==
    /\ history.correlated = {<<1, 1>>, <<1, 0>>}
    /\ LcmGetCorrelation(oco_controller_.correlation_matrix_, 0, 1) # 0
    /\ <<1, 1>> \in DOMAIN oco_controller_.correlation_matrix_
    /\ oco_controller_.correlation_matrix_[<<1, 1>>] # 100

\* C25 (FEC disabled bypass): with FEC disabled, send_stream_data(payload,
\* origin) returns exactly one packet, on path origin, not a repair packet,
\* its frame a source frame whose payload is the whole payload, and leaves
\* the group manager and the packet-number mapper as they were.
C25_DisabledBypass ==
    [][(ctl_ret'.op = "send_stream_data" /\ ~fec_enabled_
          /\ history'.sends = history.sends + 1)
       =>
       /\ ~ctl_ret'.threw
       /\ Len(ctl_ret'.result) = 1
       /\ ctl_ret'.result[1].path_id = ctl_ret'.args[1]
       /\ ~ctl_ret'.result[1].is_repair
       /\ ctl_ret'.result[1].frame.header.frame_type = FEC_SOURCE_FRAME
       /\ ctl_ret'.result[1].frame.payload = ctl_ret'.stream_data
       /\ group_manager_' = group_manager_
       /\ pkt_mapper_' = pkt_mapper_]_vars

\* C25 witness: a send without FEC was made while the open group held a
\* block, and on a path other than path 0.
C25_Witness ==
    /\ ctl_ret.op = "send_stream_data" /\ ~ctl_ret.fec
    /\ Len(ctl_ret.result) = 1
    /\ ctl_ret.args = <<1>>
    /\ group_manager_.current_group_.source_packets # <<>>

\* C26 (invalid rate leaves state unchanged): update_coding_params with
\* k = 0, m = 0 or k + m > 255 fails, and after the call the group manager's
\* (k, m), encoder, current group and sealed groups are as before it.
C26_InvalidRateRejected ==
    [][(gm_ret'.op = "update_coding_params" /\ gm_ret'.rate \in InvalidRates)
       => (gm_ret'.threw /\ group_manager_' = group_manager_)]_vars

\* C27 (block size mismatch leaves state unchanged): add_source_packet with
\* a block whose length is not block_size fails and leaves the source
\* blocks of the current group as they were.
C27_WrongSizeRejected ==
    [][(gm_ret'.op = "add_source_packet"
          /\ Len(gm_ret'.data) # group_manager_.block_size_)
       => /\ gm_ret'.threw
          /\ group_manager_'.current_group_.source_packets
                = group_manager_.current_group_.source_packets]_vars

\* milliseconds since initialize or the last periodic_update that passed
\* its gate
SinceEffectiveMs == (now - history.effective_at) * TickMs

\* C28 (periodic gate): a periodic_update called less than 100 ms after
\* initialize or after the last periodic_update that took effect changes
\* neither the decision, nor the group manager, nor the mapper, nor the
\* last-update time.
C28_PeriodicGate ==
    [][(ctl_ret'.op = "periodic_update" /\ now' = now
          /\ history.effective_at >= 0
          /\ SinceEffectiveMs < UPDATE_INTERVAL_MS)
       => /\ current_decision_' = current_decision_
          /\ group_manager_' = group_manager_
          /\ pkt_mapper_' = pkt_mapper_
          /\ last_update_time_us_' = last_update_time_us_]_vars

\* a second periodic_update right after one that took effect finds a source
\* block pending and leaves it
C28_Witness ==
    /\ ctl_ret.op = "periodic_update" /\ ~ctl_ret.ran
    /\ history.decided
    /\ SinceEffectiveMs = 0
    /\ Len(group_manager_.current_group_.source_packets) = 1

\* milliseconds since the current group was created
GroupAgeMs == (now - history.created_at) * TickMs

\* C29 (age-out flush): a periodic_update that passes its gate and leaves
\* the rate (k, m) as it was leaves the current group as it is, unless that
\* group holds a source block and was created more than 200 ms earlier.
C29_AgeOutFlush ==
    [][(/\ ctl_ret'.op = "periodic_update" /\ ctl_ret'.ran /\ now' = now
        /\ group_manager_'.current_k_ = group_manager_.current_k_
        /\ group_manager_'.current_m_ = group_manager_.current_m_
        /\ \/ group_manager_.current_group_.source_packets = <<>>
           \/ GroupAgeMs <= 200)
       => group_manager_'.current_group_ = group_manager_.current_group_]_vars

\* C30 (single open group): after every group-manager operation the current
\* group is not encoded, is not one of the groups get_encoded_group returns,
\* and holds fewer source blocks than the current k.
C30_SingleOpenGroup ==
    /\ ~group_manager_.current_group_.is_encoded
    /\ GetEncodedGroup(group_manager_, group_manager_.current_group_.group_id)
         = <<>>
    /\ Len(group_manager_.current_group_.source_packets)
         < group_manager_.current_k_

\* SendPacketMeta records send_stream_data has returned so far
ReturnedSoFar == history.emitted[0] + history.emitted[1]

\* C31 (statistics account for emitted packets): no counter ever decreases,
\* total_packets_sent is source_packets_sent plus repair_packets_sent, and
\* total_packets_sent is the number of SendPacketMeta records
\* send_stream_data has returned, with FEC enabled or disabled.
C31_StatsAccount ==
    [][/\ stats_'.total_packets_sent >= stats_.total_packets_sent
       /\ stats_'.source_packets_sent >= stats_.source_packets_sent
       /\ stats_'.repair_packets_sent >= stats_.repair_packets_sent
       /\ stats_'.packets_recovered >= stats_.packets_recovered
       /\ stats_'.fec_groups_created >= stats_.fec_groups_created
       /\ stats_'.total_packets_sent
            = stats_'.source_packets_sent + stats_'.repair_packets_sent
       /\ stats_'.total_packets_sent = ReturnedSoFar']_vars

\* the path weights of the scheduler, summed
WeightSum ==
    SumOver(AscendingKeys(DOMAIN path_scheduler_.weights_),
            path_scheduler_.weights_)

\* C32 (weights are a distribution): after every update_path_state of the
\* scheduler the path weights sum to 1, to within the rounding of one unit
\* per path, and every weight is at least 0.001, to within the tenth of
\* it that the rounding of the exponentials can add up to.
C32_WeightsDistribution ==
    ctl_ret.op = "update_path_state"
    => /\ Abs(WeightSum - WeightOne)
            <= Cardinality(DOMAIN path_scheduler_.weights_)
       /\ \A p \in DOMAIN path_scheduler_.weights_ :
             10 * path_scheduler_.weights_[p] >= 9 * WeightFloor

\* the host goes on to make every send_stream_data call it has to make
HostKeepsSending == []<>(history.sends = MaxStrandSends)

\* C33 (no source block is stranded): a group the group manager has sealed,
\* by a full group, a flush or a rate change, while the host still has
\* send_stream_data calls to make, has its frames returned by
\* send_stream_data sooner or later, if the host goes on calling.
C33_NoStrandedBlock ==
    HostKeepsSending
    => \A g \in 1..(MaxStrandSends + 1) :
          (/\ g \in DOMAIN group_manager_.encoded_groups_
           /\ history.sends < MaxStrandSends)
             ~> (g \in history.emitted_groups)

\* the registered paths is_path_available accepts
AvailablePaths ==
    {p \in DOMAIN path_scheduler_.paths_ : IsPathAvailable(path_scheduler_, p)}

\* C34 (source path is an available path): while a registered path is
\* available, select_source_path returns an available path, the one of the
\* highest score among them, the smallest id winning a tie.
C34_SourcePathAvailable ==
    (ctl_ret.op = "select_source_path" /\ AvailablePaths # {})
    => /\ ~ctl_ret.threw
       /\ ctl_ret.path \in AvailablePaths
       /\ \A q \in AvailablePaths :
             \/ SchedScore(path_scheduler_.paths_[ctl_ret.path])
                  > SchedScore(path_scheduler_.paths_[q])
             \/ /\ SchedScore(path_scheduler_.paths_[ctl_ret.path])
                     = SchedScore(path_scheduler_.paths_[q])
                /\ ctl_ret.path <= q

\* C35 (statistics snapshots are atomic): every snapshot get_statistics
\* returns while another thread is inside send_stream_data has
\* total_packets_sent = source_packets_sent + repair_packets_sent and is the
\* value stats_ had before or after a whole controller operation.
C35_SnapshotAtomic ==
    threads.reads > 0
    => /\ threads.returned.total_packets_sent
            = threads.returned.source_packets_sent
                + threads.returned.repair_packets_sent
       /\ threads.returned \in threads.whole


\* C36 (emitted frames are well-formed): every frame of a SendPacketMeta that
\* send_stream_data returns, with FEC enabled or disabled, has
\* header.payload_length equal to the size of its payload, the source frame
\* type exactly when is_repair is false and the repair frame type exactly when
\* is_repair is true, and block_index < total_blocks.
C36_FramesWellFormed ==
    (ctl_ret.op = "send_stream_data" /\ ~ctl_ret.threw)
    => \A i \in 1..Len(ctl_ret.result) :
         LET meta == ctl_ret.result[i]
             header == meta.frame.header
         IN /\ header.payload_length = Len(meta.frame.payload)
            /\ (header.frame_type = FEC_SOURCE_FRAME) <=> ~meta.is_repair
            /\ (header.frame_type = FEC_REPAIR_FRAME) <=> meta.is_repair
            /\ header.block_index < header.total_blocks


\* C37 (group frames are consistent): the source and repair frames of a group
\* the sender emits, whatever rate changes came before or during its
\* accumulation, all carry one total_blocks value, which is the number of
\* frames emitted for the group, and their block_index values are
\* 0..total_blocks-1, each once.
C37_GroupFramesConsistent ==
    (ctl_ret.op = "send_stream_data" /\ ctl_ret.fec /\ ~ctl_ret.threw
        /\ ctl_ret.result # <<>>)
    => LET frames == [i \in 1..Len(ctl_ret.result) |-> ctl_ret.result[i].frame]
       IN /\ \A i \in 1..Len(frames) :
                frames[i].header.total_blocks = Len(frames)
          /\ {frames[i].header.block_index : i \in 1..Len(frames)}
                = 0..(Len(frames) - 1)


\* the mapping add_mapping records for a packet the controller returns
MappingOf(meta) ==
    [group_id |-> meta.frame.header.group_id,
     block_index |-> meta.frame.header.block_index,
     path_id |-> meta.path_id, packet_number |-> meta.packet_number,
     is_repair |-> meta.is_repair]

\* find_by_packet and find_by_group both return the mapping
RoundTrips(mapper, mapping) ==
    /\ FindByPacket(mapper, mapping.path_id, mapping.packet_number)
         = <<mapping>>
    /\ \E i \in 1..Len(FindByGroup(mapper, mapping.group_id)) :
          FindByGroup(mapper, mapping.group_id)[i] = mapping

\* the horizon periodic_update cleans up with, 0 when it does not clean up
CleanupHorizon ==
    IF stats_.fec_groups_created > CLEANUP_THRESHOLD
      THEN stats_.fec_groups_created - CLEANUP_KEEP ELSE 0

\* C38 (mapping lookup round trip): for every packet the controller emits with
\* group g, block index b, path p and packet number n, find_by_packet(p, n)
\* returns the mapping (g, b, p, n) and find_by_group(g) contains it, from the
\* emission on and across every call that is not a cleanup with a horizon
\* above g.
C38_MappingRoundTrip ==
    [][/\ (ctl_ret'.op = "send_stream_data" /\ ctl_ret'.fec /\ ~ctl_ret'.threw)
          => \A i \in 1..Len(ctl_ret'.result) :
                RoundTrips(pkt_mapper_', MappingOf(ctl_ret'.result[i]))
       /\ \A g \in DOMAIN pkt_mapper_.group_to_mappings_ :
            \A i \in 1..Len(pkt_mapper_.group_to_mappings_[g]) :
              RoundTrips(pkt_mapper_, pkt_mapper_.group_to_mappings_[g][i])
              => \/ RoundTrips(pkt_mapper_', pkt_mapper_.group_to_mappings_[g][i])
                 \/ /\ ctl_ret'.op = "periodic_update" /\ ctl_ret'.ran
                    /\ CleanupHorizon > g]_vars


\* the hook as it is when only the frames of group g were delivered to it
AloneHook(g) ==
    [received_groups_ |->
         [x \in DOMAIN receive_hook_.received_groups_ \cap {g} |->
             receive_hook_.received_groups_[x]],
     decoders_ |-> <<>>]

\* C39 (receive groups are independent): a frame of group g delivered to
\* on_frame_received in any interleaving with the frames of another group
\* returns the list, and leaves group g in the state, that the same delivery
\* returns and leaves when only the frames of g were delivered before it, and
\* it leaves every other group as it was.
C39_GroupsIndependent ==
    [][\A g \in RxGroupIds : \A idx \in 0..(Len(tx_groups[g].frames) - 1) :
         (rx_last'.group = g /\ rx_last'.index = idx)
         => LET alone == OnFrameReceived(AloneHook(g), tx_groups[g].frames[idx + 1])
            IN /\ rx_ret' = alone.ret
               /\ g \in DOMAIN receive_hook_'.received_groups_
               /\ receive_hook_'.received_groups_[g]
                    = alone.hook.received_groups_[g]
               /\ \A other \in RxGroupIds \ {g} :
                    IF other \in DOMAIN receive_hook_.received_groups_
                      THEN /\ other \in DOMAIN receive_hook_'.received_groups_
                           /\ receive_hook_'.received_groups_[other]
                                = receive_hook_.received_groups_[other]
                      ELSE other \notin DOMAIN receive_hook_'.received_groups_]_vars

\* C39 witness: a delivery completed one group with blocks to return while
\* the other group held frames and was not yet decoded.
C39_Witness ==
    /\ rx_last.group # 0
    /\ rx_ret # <<>>
    /\ \E other \in RxGroupIds \ {rx_last.group} :
          /\ other \in DOMAIN receive_hook_.received_groups_
          /\ ~receive_hook_.received_groups_[other].is_complete
          /\ receive_hook_.received_groups_[other].received_frames # <<>>


RECURSIVE Flatten(_)
\* the bytes of a list of blocks, one block after the other
Flatten(blocks) ==
    IF blocks = <<>> THEN <<>> ELSE Head(blocks) \o Flatten(Tail(blocks))

\* C40 (the manager sends the whole payload): when send_data(data,
\* use_fec = true) returns true with FEC enabled, the data blocks handed to
\* the transport hold every byte of data, in order, for every length of data,
\* lengths above k * block_size included.
C40_WholePayloadSent ==
    (manager.call.op = "send_data" /\ manager.call.use_fec /\ manager.call.fec
        /\ manager.call.ret)
    => /\ Len(Flatten(manager.call.handed)) >= Len(manager.call.data)
       /\ SubSeq(Flatten(manager.call.handed), 1, Len(manager.call.data))
            = manager.call.data

=============================================================================
